---- MODULE Spec2Model ----
(***************************************************************************)
(* Model of the MentisSandbox Runtime control plane:                       *)
(*   - SandboxManager (go/mentisruntime/manager/manager.go, current        *)
(*     version, lines 1-895) with the SpaceManager it delegates to,        *)
(*   - the WebSocket Hub and its clients (go/mentisruntime/ws/hub.go),     *)
(*   - the in-container executor, which is not part of the Go sources and  *)
(*     is modelled from its documented contract.                           *)
(* Every goroutine is a process whose steps are the points where it        *)
(* touches shared state: the manager's mutex, the docker daemon, the hub's *)
(* channels, the per-client send channel.                                  *)
(***************************************************************************)
EXTENDS Integers, Sequences, FiniteSets, TLC

\* ---------------------------------------------------------------- bounds
\* number of observations the executor pushes for one action
MaxPush == 2
\* capacity of Hub.broadcast in the model (the code allocates 256)
BroadcastCap == 2
\* capacity of Client.send in the model (the code allocates 256)
SendCap == 1
\* number of DeleteSandbox / DeleteSpace API calls issued by API callers
MaxDeleteCalls == 3
\* number of BroadcastToSandbox calls
MaxDirectCalls == 2
\* health probes that fit into the timeout of waitForAgentReady (the code
\* probes on a 500 ms tick for 30 s)
ProbeBudget == 2

SandboxIds == {"s1", "s2"}
\* the space NewSpaceManager creates, and the uuid CreateSpace can hand out
DefaultSpaceID == "default"
SpaceIds == {DefaultSpaceID, "sp2", "sp3"}
\* action ids (uuid.NewString() results) the model hands out, in this order
ActionIds == {1, 2}
\* websocket connections
ClientIds == {1, 2}
\* goroutines that run DeleteSandbox: two API callers and the DeleteSpace loop
ApiProcs == {"d1", "d2"}
SpaceProc == "ds"
Procs == ApiProcs \cup {SpaceProc}

NoSandbox == "none"
NoSpace == "none"

\* net/http status codes the handlers answer with; NoReply: not answered yet
NoReply == 0
StatusOK == 200
StatusAccepted == 202
StatusNotFound == 404
StatusInternalServerError == 500
StatusCreated == 201
StatusBadRequest == 400
StatusConflict == 409

VARIABLES
  \* ---- SandboxManager / SpaceManager / docker
  sandboxes,    \* m.sandboxes: sandboxID -> SandboxState
  spaces,       \* sm.spaces: spaceID -> set of sandbox ids (SpaceState.Sandboxes)
  creating,     \* the sandbox CreateSandbox is building while it holds m.mu
  container,    \* docker's view of each sandbox's container
  delPc,        \* position of each DeleteSandbox caller
  delSb,        \* sandbox that caller is deleting
  delSpaceID,   \* spaceID captured by the caller under the lock
  delErr,       \* err of the caller's ContainerRemove
  delStopErr,   \* per caller: err of its ContainerStop until ContainerRemove overwrites it
  delResult,    \* what the caller's last DeleteSandbox returned
  delAfter,     \* the caller's current call began after a call on the same id returned
  delReturned,  \* sandbox ids for which some DeleteSandbox call has returned
  destroyers,   \* per sandbox: callers that issued ContainerStop/ContainerRemove
  delCalls,     \* number of API delete calls issued so far
  dsPc,         \* position of the DeleteSpace loop
  dsTodo,       \* sandbox ids the DeleteSpace loop still has to delete
  issued,       \* space ids CreateSpace has handed out (uuids are never reused)
  spaceName,    \* SpaceState.Name of every space id handed out
  apiResp,      \* the last answer of an API handler
  rejected,     \* what InitiateAction's errors named: sandbox ids and action types
  \* ---- actions, handshake goroutines, executor
  actPc,        \* position of handleActionExecution for each action id
  actSb,        \* sandbox of the action
  actType,      \* "shell" or "ipython"
  hsOutcome,    \* what httpClient.Do returned for the action's POST
  execPc,       \* the executor's job for the action
  execN,        \* observations the executor has pushed for the action
  obsType,      \* observation_type of the push now inside ReceiveInternalObservation
  obsPc,        \* position of that ReceiveInternalObservation call
  obsReply,     \* HTTP status InternalObservationHandler gave the last push
  requestBody,  \* per action: the JSON object POSTed to the executor
  obsData,      \* exit_code and error fields of the push now being handled
  endData,      \* per action: data of the end observations the manager built, in order
  submitted,    \* per action: what was handed to Hub.SubmitBroadcast, in order
  startedBefore,\* per action: the actions whose start was pushed before it was initiated
  audience,     \* per action: the clients registered when its start was pushed
  \* ---- Hub and clients
  broadcast,    \* h.broadcast: buffered channel of BroadcastMessage
  cPc,          \* websocket connection: new, connecting, registered, closed
  cSb,          \* client.sandboxID
  send,         \* client.send: buffered channel
  received,     \* messages writePump has written to the peer, in order
  frames,       \* per text frame written to the peer: the messages it carries
  missed,       \* messages Hub.Run could not place in client.send
  hClients,     \* h.clients: the registered clients
  hSubs,        \* h.sandboxSubscriptions: sandbox id -> set of clients
  chClosed,     \* per client: close(client.send) has been executed
  rdPc,         \* readPump: none, reading, unregistering, done
  wrPc,         \* writePump: none, running, done
  bts,          \* the BroadcastToSandbox call under way and the calls made
  btsUnreg,     \* per client: goroutines of BroadcastToSandbox waiting to send on h.unregister
  hubPanic      \* run-time panics raised on client.send

lifeVars == <<sandboxes, spaces, creating, container, delPc, delSb, delSpaceID,
              delErr, delStopErr, delResult, delAfter, delReturned, destroyers, delCalls,
              dsPc, dsTodo>>

actVars == <<rejected, actPc, actSb, actType, hsOutcome, execPc, execN, obsType, obsPc, obsReply,
            requestBody, obsData, endData, submitted, startedBefore, audience>>

connVars == <<hClients, hSubs, chClosed, rdPc, wrPc, bts, btsUnreg, hubPanic>>

hubVars == <<broadcast, cPc, cSb, send, received, frames, missed, connVars>>

apiVars == <<issued, spaceName, apiResp>>

vars == <<lifeVars, actVars, hubVars, apiVars>>

\* SandboxState as stored by CreateSandbox
SandboxState(sid, spaceID, agentURL) ==
  [ID |-> sid, ContainerID |-> sid, AgentURL |-> agentURL, IsRunning |-> TRUE,
   SpaceID |-> spaceID]

\* m.mu is write-locked for the whole of CreateSandbox; stage is how far the
\* call has come: image, created, started, nourl, url, healthy; loop is the
\* inspect loop under way, portTries and ipTries the inspect attempts each loop
\* has made, agentURL what the URL was built from ("" while there is none),
\* sawBinding whether an inspect answer carried a host binding for 8000/tcp,
\* probes the health probes that were answered without a 2xx
NoCreate == [sid |-> NoSandbox, space |-> NoSpace, stage |-> "none", loop |-> "port",
             portTries |-> 0, ipTries |-> 0, agentURL |-> "", sawBinding |-> FALSE,
             probes |-> 0]

muHeld == creating.sid # NoSandbox

\* ------------------------------------------------------------ CreateSandbox
\* CreateSandbox up to the image check: m.mu.Lock(), GetSpace succeeds, a fresh
\* uuid is drawn, the image is found locally or pulled.  The lock stays held.
CreateBegin(s, sp) ==
  /\ ~muHeld
  /\ container[s] = "none"
  /\ sp \in DOMAIN spaces
  /\ creating' = [NoCreate EXCEPT !.sid = s, !.space = sp, !.stage = "image"]
  /\ UNCHANGED <<sandboxes, spaces, container, delPc, delSb, delSpaceID, delErr, delStopErr, delResult,
                 delAfter, delReturned, destroyers, delCalls, dsPc, dsTodo>>

\* dockerClient.ContainerCreate succeeded
CreateContainer ==
  /\ creating.stage = "image"
  /\ creating' = [creating EXCEPT !.stage = "created"]
  /\ container' = [container EXCEPT ![creating.sid] = "created"]
  /\ UNCHANGED <<sandboxes, spaces, delPc, delSb, delSpaceID, delErr, delStopErr, delResult,
                 delAfter, delReturned, destroyers, delCalls, dsPc, dsTodo>>

\* dockerClient.ContainerStart succeeded
CreateStart ==
  /\ creating.stage = "created"
  /\ creating' = [creating EXCEPT !.stage = "started"]
  /\ container' = [container EXCEPT ![creating.sid] = "running"]
  /\ UNCHANGED <<sandboxes, spaces, delPc, delSb, delSpaceID, delErr, delStopErr, delResult,
                 delAfter, delReturned, destroyers, delCalls, dsPc, dsTodo>>

\* maxRetries := 5, the attempts of each inspect loop
maxRetries == 5

\* what one ContainerInspect gives: an error, a container that is not running,
\* or a running container with or without a host binding for 8000/tcp and
\* with or without an IP address
InspectAnswers == {"error", "notRunning", "none", "ip", "port", "both"}

HasBinding(ans) == ans \in {"port", "both"}

HasIP(ans) == ans \in {"ip", "both"}

\* one attempt of the inspect loops.  The first loop looks for the host
\* binding only and ends with http://localhost:<port> when it sees one; after
\* maxRetries attempts without one the fallback loop looks for an IP address
\* only and ends with http://<ip>:8000; after maxRetries attempts without one
\* no URL can be built
CreateDiscover(ans) ==
  /\ creating.stage = "started"
  /\ creating' =
       IF creating.loop = "port"
         THEN IF HasBinding(ans)
                THEN [creating EXCEPT !.portTries = @ + 1, !.stage = "url",
                                      !.agentURL = "port", !.sawBinding = TRUE]
                ELSE [creating EXCEPT !.portTries = @ + 1,
                                      !.loop = IF creating.portTries + 1 = maxRetries
                                                 THEN "ip" ELSE "port"]
         ELSE IF HasIP(ans)
                THEN [creating EXCEPT !.ipTries = @ + 1, !.stage = "url", !.agentURL = "ip",
                                      !.sawBinding = @ \/ HasBinding(ans)]
                ELSE [creating EXCEPT !.ipTries = @ + 1,
                                      !.sawBinding = @ \/ HasBinding(ans),
                                      !.stage = IF creating.ipTries + 1 = maxRetries
                                                  THEN "nourl" ELSE "started"]
  /\ UNCHANGED <<sandboxes, spaces, container, delPc, delSb, delSpaceID, delErr, delStopErr, delResult,
                 delAfter, delReturned, destroyers, delCalls, dsPc, dsTodo>>

\* what one GET agentURL/health gives
ProbeAnswers == {"2xx", "non2xx", "error"}

\* a slip the code does not make: a probe loop whose timeout starts anew
\* instead of ending the loop
CreateProbeRestarting(ans) ==
  /\ creating.stage = "url"
  /\ creating' = IF ans = "2xx" THEN [creating EXCEPT !.stage = "healthy"]
                 ELSE [creating EXCEPT !.probes = IF @ < ProbeBudget THEN @ + 1 ELSE 0]
  /\ UNCHANGED <<sandboxes, spaces, container, delPc, delSb, delSpaceID, delErr, delStopErr, delResult,
                 delAfter, delReturned, destroyers, delCalls, dsPc, dsTodo>>

\* waitForAgentReady, one tick: a 2xx answer ends the loop with nil; any other
\* answer is logged and the loop waits for the next tick, of which only
\* ProbeBudget fit into the timeout
CreateProbe(ans) ==
  /\ creating.stage = "url"
  /\ ans # "2xx" => creating.probes < ProbeBudget
  /\ creating' = IF ans = "2xx" THEN [creating EXCEPT !.stage = "healthy"]
                 ELSE [creating EXCEPT !.probes = @ + 1]
  /\ UNCHANGED <<sandboxes, spaces, container, delPc, delSb, delSpaceID, delErr, delStopErr, delResult,
                 delAfter, delReturned, destroyers, delCalls, dsPc, dsTodo>>

\* the stages at which CreateSandbox can return an error: image unavailable or
\* ContainerCreate failed (image), ContainerStart failed (created), no agent
\* URL (nourl), not healthy when the timeout or the caller's context ends the
\* probe loop (url)
FailStages == {"image", "created", "nourl", "url"}

\* a slip the code does not make: the state is stored before the call gives up
CreateFailIndexed(removed) ==
  /\ creating.stage \in FailStages
  /\ removed \in BOOLEAN
  /\ container' = container
  /\ sandboxes' = (creating.sid :> SandboxState(creating.sid, creating.space, creating.agentURL)) @@ sandboxes
  /\ creating' = NoCreate
  /\ UNCHANGED <<spaces, delPc, delSb, delSpaceID, delErr, delStopErr, delResult,
                 delAfter, delReturned, destroyers, delCalls, dsPc, dsTodo>>

\* CreateSandbox returns an error and releases the lock; nothing is recorded.
\* If a container was created, ContainerRemove(Force) is issued first and its
\* error is logged or dropped: removed tells whether docker carried it out
CreateFail(removed) ==
  /\ creating.stage \in FailStages
  /\ removed \in BOOLEAN
  /\ container' = IF creating.stage # "image" /\ removed
                    THEN [container EXCEPT ![creating.sid] = "removed"]
                    ELSE container
  /\ sandboxes' = sandboxes
  /\ creating' = NoCreate
  /\ UNCHANGED <<spaces, delPc, delSb, delSpaceID, delErr, delStopErr, delResult,
                 delAfter, delReturned, destroyers, delCalls, dsPc, dsTodo>>

\* spaceManager.addSandboxToSpace: ErrSpaceNotFound is only logged
addSandboxToSpace(sp, s) ==
  IF sp \in DOMAIN spaces THEN [spaces EXCEPT ![sp] = @ \cup {s}] ELSE spaces

\* the version of CreateSandbox without step 6 (the health check): the state is
\* stored as soon as the agent URL is known
CreateFinishUnprobed ==
  /\ creating.stage \in {"url", "healthy"}
  /\ sandboxes' = (creating.sid :> SandboxState(creating.sid, creating.space, creating.agentURL)) @@ sandboxes
  /\ spaces' = addSandboxToSpace(creating.space, creating.sid)
  /\ creating' = NoCreate
  /\ UNCHANGED <<container, delPc, delSb, delSpaceID, delErr, delStopErr, delResult,
                 delAfter, delReturned, destroyers, delCalls, dsPc, dsTodo>>

\* health check passed: store the state, link it to the space, unlock
CreateFinish ==
  /\ creating.stage = "healthy"
  /\ sandboxes' = (creating.sid :> SandboxState(creating.sid, creating.space, creating.agentURL)) @@ sandboxes
  /\ spaces' = addSandboxToSpace(creating.space, creating.sid)
  /\ creating' = NoCreate
  /\ UNCHANGED <<container, delPc, delSb, delSpaceID, delErr, delStopErr, delResult,
                 delAfter, delReturned, destroyers, delCalls, dsPc, dsTodo>>

\* ------------------------------------------------------------ DeleteSandbox
\* first critical section of DeleteSandbox: look the sandbox up, capture the
\* space id, unlock.  A missing sandbox returns ErrSandboxNotFound at once.
DelLookup(p, s) ==
  /\ ~muHeld
  /\ delPc[p] = "idle"
  /\ delSb' = [delSb EXCEPT ![p] = s]
  /\ delAfter' = [delAfter EXCEPT ![p] = (s \in delReturned)]
  /\ IF s \in DOMAIN sandboxes
       THEN /\ delPc' = [delPc EXCEPT ![p] = "stop"]
            /\ delSpaceID' = [delSpaceID EXCEPT ![p] = sandboxes[s].SpaceID]
            /\ delResult' = [delResult EXCEPT ![p] = "running"]
       ELSE /\ delPc' = delPc
            /\ delSpaceID' = delSpaceID
            /\ delResult' = [delResult EXCEPT ![p] = "notfound"]
  /\ delErr' = [delErr EXCEPT ![p] = FALSE]
  /\ delStopErr' = [delStopErr EXCEPT ![p] = "none"]

\* a container the engine no longer has: a call on it returns a not-found error
Gone(s) == container[s] \in {"none", "removed"}

\* a call that left the container as it was returned: a not-found error for a
\* container that is gone, nil for a stop of a stopped one, another error
\* (engine unreachable, deadline exceeded) otherwise
EngineError(s, call) ==
  IF Gone(s) THEN "notfound"
  ELSE IF call = "stop" /\ container[s] = "stopped" THEN "nil"
  ELSE "other"

\* a slip the code does not make: a deletion that marks the record as stopped
\* once the container has been stopped
DelStopMarking(p) ==
  /\ delPc[p] = "stop"
  /\ delPc' = [delPc EXCEPT ![p] = "remove"]
  /\ destroyers' = [destroyers EXCEPT ![delSb[p]] = @ \cup {p}]
  /\ \/ /\ container[delSb[p]] = "running"
        /\ container' = [container EXCEPT ![delSb[p]] = "stopped"]
        /\ delStopErr' = [delStopErr EXCEPT ![p] = "nil"]
     \/ /\ container' = container
        /\ delStopErr' = [delStopErr EXCEPT ![p] = EngineError(delSb[p], "stop")]
  /\ sandboxes' = IF delSb[p] \in DOMAIN sandboxes
                    THEN [sandboxes EXCEPT ![delSb[p]].IsRunning = FALSE]
                    ELSE sandboxes
  /\ UNCHANGED <<spaces, creating, delSb, delSpaceID, delErr, delResult,
                 delAfter, delReturned, delCalls, dsPc, dsTodo>>

\* dockerClient.ContainerStop: succeeds on a running container or fails (the
\* error is logged and ignored)
DelStop(p) ==
  /\ delPc[p] = "stop"
  /\ delPc' = [delPc EXCEPT ![p] = "remove"]
  /\ destroyers' = [destroyers EXCEPT ![delSb[p]] = @ \cup {p}]
  /\ \/ /\ container[delSb[p]] = "running"
        /\ container' = [container EXCEPT ![delSb[p]] = "stopped"]
        /\ delStopErr' = [delStopErr EXCEPT ![p] = "nil"]
     \/ /\ container' = container
        /\ delStopErr' = [delStopErr EXCEPT ![p] = EngineError(delSb[p], "stop")]
  /\ UNCHANGED <<sandboxes, spaces, creating, delSb, delSpaceID, delErr, delResult,
                 delAfter, delReturned, delCalls, dsPc, dsTodo>>

\* a slip the code does not make: returning the removal error at once, the
\* index and the space left as they are
DelRemoveOrReturn(p) ==
  /\ delPc[p] = "remove"
  /\ \/ /\ container[delSb[p]] # "removed"
        /\ container' = [container EXCEPT ![delSb[p]] = "removed"]
        /\ delPc' = [delPc EXCEPT ![p] = "unindex"]
        /\ UNCHANGED <<delResult, delReturned>>
     \/ /\ container' = container
        /\ delPc' = [delPc EXCEPT ![p] = "idle"]
        /\ delResult' = [delResult EXCEPT ![p] = "error"]
        /\ delReturned' = delReturned \cup {delSb[p]}
  /\ delErr' = [delErr EXCEPT ![p] = FALSE]
  /\ delStopErr' = [delStopErr EXCEPT ![p] = "none"]
  /\ UNCHANGED <<sandboxes, spaces, creating, delSb, delSpaceID,
                 delAfter, destroyers, delCalls, dsPc, dsTodo>>

\* dockerClient.ContainerRemove(Force): removes the container, or fails (always
\* when the container is already gone); err is kept for the return value
DelRemove(p) ==
  /\ delPc[p] = "remove"
  /\ delPc' = [delPc EXCEPT ![p] = "unindex"]
  /\ \/ /\ container[delSb[p]] # "removed"
        /\ container' = [container EXCEPT ![delSb[p]] = "removed"]
        /\ delErr' = [delErr EXCEPT ![p] = FALSE]
     \/ /\ container' = container
        /\ delErr' = [delErr EXCEPT ![p] = TRUE]
  /\ delStopErr' = [delStopErr EXCEPT ![p] = "none"]
  /\ UNCHANGED <<sandboxes, spaces, creating, delSb, delSpaceID, delResult,
                 delAfter, delReturned, destroyers, delCalls, dsPc, dsTodo>>

\* the map without one key (Go's delete)
MapDelete(f, k) == [x \in (DOMAIN f) \ {k} |-> f[x]]

\* a slip the code does not make: leaving the entry when the removal failed
DelUnindexKeepOnErr(p) ==
  /\ ~muHeld
  /\ delPc[p] = "unindex"
  /\ delPc' = [delPc EXCEPT ![p] = "unspace"]
  /\ sandboxes' = IF delErr[p] THEN sandboxes ELSE MapDelete(sandboxes, delSb[p])
  /\ UNCHANGED <<spaces, creating, container, delSb, delSpaceID, delErr, delStopErr, delResult,
                 delAfter, delReturned, destroyers, delCalls, dsPc, dsTodo>>

\* second critical section: delete(m.sandboxes, sandboxID), with or without err
DelUnindex(p) ==
  /\ ~muHeld
  /\ delPc[p] = "unindex"
  /\ delPc' = [delPc EXCEPT ![p] = "unspace"]
  /\ sandboxes' = MapDelete(sandboxes, delSb[p])
  /\ UNCHANGED <<spaces, creating, container, delSb, delSpaceID, delErr, delStopErr, delResult,
                 delAfter, delReturned, destroyers, delCalls, dsPc, dsTodo>>

\* spaceManager.removeSandboxFromSpace: a missing space is not an error
removeSandboxFromSpace(sp, s) ==
  IF sp \in DOMAIN spaces THEN [spaces EXCEPT ![sp] = @ \ {s}] ELSE spaces

\* a slip the code does not make: DeleteSandbox returning without
\* removeSandboxFromSpace
DelReturnLinked(p) ==
  /\ delPc[p] = "unspace"
  /\ delPc' = [delPc EXCEPT ![p] = "idle"]
  /\ spaces' = spaces
  /\ delResult' = [delResult EXCEPT ![p] = IF delErr[p] THEN "error" ELSE "ok"]
  /\ delReturned' = delReturned \cup {delSb[p]}
  /\ delSpaceID' = [delSpaceID EXCEPT ![p] = NoSpace]
  /\ delErr' = [delErr EXCEPT ![p] = FALSE]
  /\ delStopErr' = [delStopErr EXCEPT ![p] = "none"]
  /\ UNCHANGED <<sandboxes, creating, container, delSb,
                 delAfter, destroyers, delCalls, dsPc, dsTodo>>

\* unlink from the space and return err (nil or the removal error)
DelReturn(p) ==
  /\ delPc[p] = "unspace"
  /\ delPc' = [delPc EXCEPT ![p] = "idle"]
  /\ spaces' = removeSandboxFromSpace(delSpaceID[p], delSb[p])
  /\ delResult' = [delResult EXCEPT ![p] = IF delErr[p] THEN "error" ELSE "ok"]
  /\ delReturned' = delReturned \cup {delSb[p]}
  /\ delSpaceID' = [delSpaceID EXCEPT ![p] = NoSpace]
  /\ delErr' = [delErr EXCEPT ![p] = FALSE]
  /\ delStopErr' = [delStopErr EXCEPT ![p] = "none"]
  /\ UNCHANGED <<sandboxes, creating, container, delSb,
                 delAfter, destroyers, delCalls, dsPc, dsTodo>>

\* an API caller (DeleteSandboxHandler) enters DeleteSandbox
DeleteSandbox(p, s) ==
  /\ p \in ApiProcs
  /\ delCalls < MaxDeleteCalls
  /\ delCalls' = delCalls + 1
  /\ DelLookup(p, s)
  /\ UNCHANGED <<sandboxes, spaces, creating, container, delReturned, destroyers,
                 dsPc, dsTodo>>

\* -------------------------------------------------------------- DeleteSpace
\* spaceManager.getSpaceSandboxes: snapshot of the ids in the space
getSpaceSandboxes(sp) == spaces[sp]

\* SandboxManager.DeleteSpace up to the loop
DeleteSpaceBegin(sp) ==
  /\ dsPc = "idle"
  /\ delCalls < MaxDeleteCalls
  /\ sp \in DOMAIN spaces
  /\ delCalls' = delCalls + 1
  /\ dsPc' = sp
  /\ dsTodo' = getSpaceSandboxes(sp)
  /\ UNCHANGED <<sandboxes, spaces, creating, container, delPc, delSb, delSpaceID,
                 delErr, delStopErr, delResult, delAfter, delReturned, destroyers>>

\* one iteration of the loop: m.DeleteSandbox(ctx, sandboxID)
DeleteSpaceNext(s) ==
  /\ dsPc # "idle"
  /\ s \in dsTodo
  /\ dsTodo' = dsTodo \ {s}
  /\ DelLookup(SpaceProc, s)
  /\ UNCHANGED <<sandboxes, spaces, creating, container, delReturned, destroyers,
                 delCalls, dsPc>>

\* after the loop: spaceManager.DeleteSpace removes the space entry
DeleteSpaceFinish ==
  /\ dsPc # "idle"
  /\ dsTodo = {}
  /\ delPc[SpaceProc] = "idle"
  /\ spaces' = MapDelete(spaces, dsPc)
  /\ dsPc' = "idle"
  /\ UNCHANGED <<sandboxes, creating, container, delPc, delSb, delSpaceID, delErr, delStopErr,
                 delResult, delAfter, delReturned, destroyers, delCalls, dsTodo>>

\* =========================================================== Hub (ws/hub.go)
BroadcastMessage(sb, a, t, src) == [SandboxID |-> sb, aid |-> a, type |-> t, src |-> src]

\* an observation of type t handed to the hub by the manager's own code
\* ("manager") or as the bytes an executor posted ("agent")
Submission(t, src) == [type |-> t, src |-> src]

\* a slip the code does not make: a queue that hands out the newest message first
SubmitBroadcastNewestFirst(q, m) == IF Len(q) < BroadcastCap THEN <<m>> \o q ELSE q

\* Hub.SubmitBroadcast: non-blocking send on h.broadcast; a full channel
\* discards the message
SubmitBroadcast(q, m) == IF Len(q) < BroadcastCap THEN Append(q, m) ELSE q

\* a slip the code does not make: one subscriber set for all sandboxes
sandboxSubscriptionsAll(s) == {c \in ClientIds : cPc[c] = "registered"}

\* h.sandboxSubscriptions[sandboxID]
sandboxSubscriptions(s) == IF s \in DOMAIN hSubs THEN hSubs[s] ELSE {}

\* ================================================ actions (manager.go 94-249)
\* uuid.NewString(): an id never handed out before
FreshAction(a) == actPc[a] = "unused" /\ \A b \in ActionIds : b < a => actPc[b] # "unused"

\* the action_id key of the request body
ActionIdKey == "action_id"

\* no request body has been built for the action
NoBody == [k \in {} |-> 0]

\* requestPayload: a map holding the generated id under action_id, into which
\* every key of the caller's payload is then copied
RequestPayload(actionID, payload) ==
  [k \in {ActionIdKey} \cup DOMAIN payload |->
     IF k \in DOMAIN payload THEN payload[k] ELSE actionID]

\* the action types InitiateAction has an agent URL for
SupportedActionTypes == {"shell", "ipython"}

\* a slip the code does not make: a rejection that is found out only after
\* handleActionExecution was launched
InitiateActionPayloadLate(a, s, t, payload) ==
  /\ ~muHeld
  /\ FreshAction(a)
  /\ actPc' = [actPc EXCEPT ![a] = "spawned"]
  /\ actSb' = [actSb EXCEPT ![a] = s]
  /\ actType' = [actType EXCEPT ![a] = t]
  /\ requestBody' = [requestBody EXCEPT ![a] = RequestPayload(a, payload)]
  /\ startedBefore' = [startedBefore EXCEPT ![a] =
         {b \in ActionIds : actPc[b] \in {"posting", "failEnd", "done"}}]
  /\ rejected' = IF ~(s \in DOMAIN sandboxes /\ sandboxes[s].IsRunning) THEN rejected \cup {s}
                 ELSE IF t \notin SupportedActionTypes THEN rejected \cup {t}
                 ELSE rejected
  /\ UNCHANGED <<hsOutcome, execPc, execN, obsType, obsPc, obsReply, obsData, endData, submitted,
                 audience, hubVars>>

\* InitiateAction: read m.sandboxes under RLock, reject a missing or stopped
\* sandbox ("sandbox %s not found or not running") and then an action type
\* other than shell and ipython ("unsupported action type: %s"); otherwise
\* build the request body, launch handleActionExecution and return the id
\* (the handler answers 202)
InitiateActionPayload(a, s, t, payload) ==
  /\ ~muHeld
  /\ FreshAction(a)
  /\ IF ~(s \in DOMAIN sandboxes /\ sandboxes[s].IsRunning)
       THEN /\ rejected' = rejected \cup {s}
            /\ UNCHANGED <<actPc, actSb, actType, requestBody, startedBefore>>
       ELSE IF t \notin SupportedActionTypes
         THEN /\ rejected' = rejected \cup {t}
              /\ UNCHANGED <<actPc, actSb, actType, requestBody, startedBefore>>
         ELSE /\ actPc' = [actPc EXCEPT ![a] = "spawned"]
              /\ actSb' = [actSb EXCEPT ![a] = s]
              /\ actType' = [actType EXCEPT ![a] = t]
              /\ requestBody' = [requestBody EXCEPT ![a] = RequestPayload(a, payload)]
              /\ startedBefore' = [startedBefore EXCEPT ![a] =
                     {b \in ActionIds : actPc[b] \in {"posting", "failEnd", "done"}}]
              /\ rejected' = rejected
  /\ UNCHANGED <<hsOutcome, execPc, execN, obsType, obsPc, obsReply, obsData, endData, submitted,
                 audience, hubVars>>

\* the payloads PostShellCommandHandler and PostIPythonCellHandler build from
\* a request that names only what to run
HandlerPayload(t) == IF t = "ipython" THEN [code |-> 0] ELSE [command |-> 0]

\* InitiateAction as called with such a payload
InitiateAction(a, s, t) == InitiateActionPayload(a, s, t, HandlerPayload(t))

\* a slip the code does not make: a plain channel send, which waits for room
\* in h.broadcast
pushObservationBlocking(a, t) ==
  /\ Len(broadcast) < BroadcastCap
  /\ broadcast' = Append(broadcast, BroadcastMessage(actSb[a], a, t, "manager"))
  /\ submitted' = [submitted EXCEPT ![a] = Append(@, Submission(t, "manager"))]

\* pushObservation: marshal and hand to the hub
pushObservation(a, t) ==
  /\ broadcast' = SubmitBroadcast(broadcast, BroadcastMessage(actSb[a], a, t, "manager"))
  /\ submitted' = [submitted EXCEPT ![a] = Append(@, Submission(t, "manager"))]

\* handleActionExecution, first statement: the synthetic start
HandleStart(a) ==
  /\ actPc[a] = "spawned"
  /\ actPc' = [actPc EXCEPT ![a] = "posting"]
  /\ pushObservation(a, "start")
  /\ audience' = [audience EXCEPT ![a] = sandboxSubscriptions(actSb[a])]
  /\ UNCHANGED <<startedBefore, rejected, actSb, actType, requestBody, obsData, endData, hsOutcome, execPc, execN, obsType, obsPc, obsReply,
                 cPc, cSb, send, received, frames, missed, connVars>>

\* outcomes of m.httpClient.Do: 2xx, status >= 400, transport failure, and the
\* 10 s client timeout (the executor may have accepted the job all the same)
HandshakeOutcomes == {"ok", "status", "transport", "timeout"}

\* the executor holds the job after these outcomes
JobAccepted(o) == o \in {"ok", "timeout"}

\* a slip the code does not make: posting to the executor without having
\* pushed the start
HandleResponseUnannounced(a, o) ==
  /\ actPc[a] \in {"spawned", "posting"}
  /\ o \in HandshakeOutcomes
  /\ (o = "ok" \/ o = "timeout") => container[actSb[a]] = "running"
  /\ hsOutcome' = [hsOutcome EXCEPT ![a] = o]
  /\ execPc' = [execPc EXCEPT ![a] = IF JobAccepted(o) THEN "queued" ELSE @]
  /\ IF o = "ok"
       THEN /\ actPc' = [actPc EXCEPT ![a] = "done"]
            /\ UNCHANGED <<broadcast, submitted>>
       ELSE /\ actPc' = [actPc EXCEPT ![a] = "failEnd"]
            /\ pushObservation(a, "error")
  /\ UNCHANGED <<startedBefore, audience, rejected, actSb, actType, requestBody, obsData, endData, execN, obsType, obsPc, obsReply,
                 cPc, cSb, send, received, frames, missed, connVars>>

\* handleActionExecution after httpClient.Do: a 2xx ends the goroutine; an
\* error or a status >= 400 pushes the error observation
HandleResponse(a, o) ==
  /\ actPc[a] = "posting"
  /\ o \in HandshakeOutcomes
  /\ (o = "ok" \/ o = "timeout") => container[actSb[a]] = "running"
  /\ hsOutcome' = [hsOutcome EXCEPT ![a] = o]
  /\ execPc' = [execPc EXCEPT ![a] = IF JobAccepted(o) THEN "queued" ELSE @]
  /\ IF o = "ok"
       THEN /\ actPc' = [actPc EXCEPT ![a] = "done"]
            /\ UNCHANGED <<broadcast, submitted>>
       ELSE /\ actPc' = [actPc EXCEPT ![a] = "failEnd"]
            /\ pushObservation(a, "error")
  /\ UNCHANGED <<startedBefore, audience, rejected, actSb, actType, requestBody, obsData, endData, execN, obsType, obsPc, obsReply,
                 cPc, cSb, send, received, frames, missed, connVars>>

\* a slip the code does not make: ending the goroutine after the error
\* observation without the end
HandleFailEndSilent(a) ==
  /\ actPc[a] = "failEnd"
  /\ actPc' = [actPc EXCEPT ![a] = "done"]
  /\ UNCHANGED <<broadcast, submitted>>
  /\ UNCHANGED <<startedBefore, audience, rejected, actSb, actType, requestBody, obsData, endData, hsOutcome, execPc, execN, obsType, obsPc, obsReply,
                 cPc, cSb, send, received, frames, missed, connVars>>

\* EndObservationData and the top-level fields of a pushed observation: an
\* absent field is the empty set, a present one the set of its value
ObsFields(exitCode, error) == [exit_code |-> exitCode, error |-> error]
NoFields == ObsFields({}, {})

\* errMsg of handleActionExecution: the failed request or the bad status
HandshakeError(o) ==
  IF o = "status" THEN "Agent returned error status" ELSE "Failed to execute action request via agent"

\* a slip the code does not make: the end of a failed handshake reporting
\* exit code 0
HandleFailEndZero(a) ==
  /\ actPc[a] = "failEnd"
  /\ actPc' = [actPc EXCEPT ![a] = "done"]
  /\ pushObservation(a, "end")
  /\ endData' = [endData EXCEPT ![a] = Append(@, ObsFields({0}, {HandshakeError(hsOutcome[a])}))]
  /\ UNCHANGED <<startedBefore, audience, rejected, actSb, actType, requestBody, obsData, hsOutcome,
                 execPc, execN, obsType, obsPc, obsReply,
                 cPc, cSb, send, received, frames, missed, connVars>>

\* ... followed by the end observation with ExitCode -1 and errMsg
HandleFailEnd(a) ==
  /\ actPc[a] = "failEnd"
  /\ actPc' = [actPc EXCEPT ![a] = "done"]
  /\ pushObservation(a, "end")
  /\ endData' = [endData EXCEPT ![a] = Append(@, ObsFields({-1}, {HandshakeError(hsOutcome[a])}))]
  /\ UNCHANGED <<startedBefore, audience, rejected, actSb, actType, requestBody, obsData, hsOutcome, execPc, execN, obsType, obsPc, obsReply,
                 cPc, cSb, send, received, frames, missed, connVars>>

\* ===================================================== in-container executor
\* observation types the executor posts to RUNTIME_OBSERVATION_URL
ExecTypes == {"stream", "error", "result", "end"}

\* the per-sandbox kernel lock: an IPython cell runs alone on its sandbox
KernelBusy(s) ==
  \E b \in ActionIds : actSb[b] = s /\ actType[b] = "ipython" /\ execPc[b] = "running"

\* the executor starts an accepted job; shell jobs start at once, an IPython
\* cell waits for the kernel lock
ExecStart(a) ==
  /\ execPc[a] = "queued"
  /\ container[actSb[a]] = "running"
  /\ actType[a] = "ipython" => ~KernelBusy(actSb[a])
  /\ execPc' = [execPc EXCEPT ![a] = "running"]
  /\ UNCHANGED <<startedBefore, audience, rejected, actPc, actSb, actType, requestBody, obsData, endData, hsOutcome, execN, obsType, obsPc, obsReply,
                 submitted, hubVars>>

\* what can arrive on the internal observation endpoint: the executor's
\* observation types, a start (the endpoint takes any observation_type), and
\* a body json.Unmarshal rejects (malformed JSON, or a timestamp that is not
\* RFC 3339)
Unparseable == "unparseable"
ObservationBodies == ExecTypes \cup {"start", Unparseable}

\* the executor POSTs one observation and waits for the answer; the result is
\* the job's last observation and releases the kernel lock
ExecPushData(a, t, d) ==
  /\ execPc[a] = "running"
  /\ container[actSb[a]] = "running"
  /\ obsPc[a] = "none"
  /\ execN[a] < MaxPush
  /\ t \in ObservationBodies
  /\ execN' = [execN EXCEPT ![a] = @ + 1]
  /\ obsType' = [obsType EXCEPT ![a] = t]
  /\ obsData' = [obsData EXCEPT ![a] = d]
  /\ obsPc' = [obsPc EXCEPT ![a] = "arrived"]
  /\ obsReply' = [obsReply EXCEPT ![a] = NoReply]
  /\ execPc' = [execPc EXCEPT ![a] = IF t = "result" THEN "finished" ELSE @]
  /\ UNCHANGED <<startedBefore, audience, rejected, actPc, actSb, actType, requestBody, endData, hsOutcome,
                 submitted, hubVars>>

\* a push whose body has neither exit_code nor error at the top level
ExecPush(a, t) == ExecPushData(a, t, NoFields)

\* ============================== ReceiveInternalObservation (manager.go 702-834)
\* InternalObservationHandler: ReceiveInternalObservation returned nil -> 200,
\* an error -> 500
ObservationReply(err) == IF err THEN StatusInternalServerError ELSE StatusOK

\* a slip the code does not make: no existence check
RecvCheckAny(a) ==
  /\ ~muHeld
  /\ obsPc[a] = "arrived"
  /\ obsPc' = [obsPc EXCEPT ![a] = "bcast"]
  /\ obsReply' = obsReply
  /\ UNCHANGED <<startedBefore, audience, rejected, actPc, actSb, actType, requestBody, obsData, endData,
                 hsOutcome, execPc, execN, obsType, submitted, hubVars>>

\* the existence check under RLock: an unknown sandbox drops the observation
\* and returns nil
RecvCheck(a) ==
  /\ ~muHeld
  /\ obsPc[a] = "arrived"
  /\ IF actSb[a] \in DOMAIN sandboxes
       THEN /\ obsPc' = [obsPc EXCEPT ![a] = "bcast"]
            /\ obsReply' = obsReply
       ELSE /\ obsPc' = [obsPc EXCEPT ![a] = "none"]
            /\ obsReply' = [obsReply EXCEPT ![a] = ObservationReply(FALSE)]
  /\ UNCHANGED <<startedBefore, audience, rejected, actPc, actSb, actType, requestBody, obsData, endData, hsOutcome, execPc, execN, obsType,
                 submitted, hubVars>>

\* the earlier ReceiveInternalObservation (manager.go 1519-1545), which built
\* an end for a result and for an end
SynthesizesEndEarlier(t) == t \in {"result", "end"}

\* processParsedObservation: the observation types that call sendEndObservation
SynthesizesEnd(t) == t \in {"result", "error"}

\* the earlier ReceiveInternalObservation (manager.go 1480-1517), which
\* broadcast the bytes before parsing and once more after
RecvBroadcastEarlier(a) ==
  /\ obsPc[a] = "bcast"
  /\ LET m == BroadcastMessage(actSb[a], a, obsType[a], "agent")
         e == Submission(obsType[a], "agent")
     IN IF obsType[a] = Unparseable
          THEN /\ broadcast' = SubmitBroadcast(broadcast, m)
               /\ submitted' = [submitted EXCEPT ![a] = Append(@, e)]
          ELSE /\ broadcast' = SubmitBroadcast(SubmitBroadcast(broadcast, m), m)
               /\ submitted' = [submitted EXCEPT ![a] = Append(Append(@, e), e)]
  /\ obsPc' = [obsPc EXCEPT ![a] = IF SynthesizesEnd(obsType[a]) THEN "end" ELSE "none"]
  /\ obsReply' = [obsReply EXCEPT ![a] =
                    IF SynthesizesEnd(obsType[a]) THEN @ ELSE ObservationReply(FALSE)]
  /\ UNCHANGED <<startedBefore, audience, rejected, actPc, actSb, actType, requestBody, obsData, endData,
                 hsOutcome, execPc, execN, obsType,
                 cPc, cSb, send, received, frames, missed, connVars>>

\* json.Unmarshal, then the bytes are broadcast as they came; a body that does
\* not parse is broadcast too and the call returns the parse error
RecvBroadcast(a) ==
  /\ obsPc[a] = "bcast"
  /\ broadcast' = SubmitBroadcast(broadcast, BroadcastMessage(actSb[a], a, obsType[a], "agent"))
  /\ submitted' = [submitted EXCEPT ![a] = Append(@, Submission(obsType[a], "agent"))]
  /\ obsPc' = [obsPc EXCEPT ![a] = IF SynthesizesEnd(obsType[a]) THEN "end" ELSE "none"]
  /\ obsReply' = [obsReply EXCEPT ![a] =
                    IF obsType[a] = Unparseable THEN ObservationReply(TRUE)
                    ELSE IF SynthesizesEnd(obsType[a]) THEN @
                    ELSE ObservationReply(FALSE)]
  /\ UNCHANGED <<startedBefore, audience, rejected, actPc, actSb, actType, requestBody, obsData, endData, hsOutcome, execPc, execN, obsType,
                 cPc, cSb, send, received, frames, missed, connVars>>

\* processParsedObservation: the exit code handed to sendEndObservation, the
\* observation's own when present, else 0 for a result and -1 for an error
EndExitCode(t, d) ==
  IF d.exit_code # {} THEN d.exit_code ELSE IF t = "result" THEN {0} ELSE {-1}

\* sendEndObservation's endData: a map with the one key exit_code
SynthesizedEndData(t, d) == ObsFields(EndExitCode(t, d), {})

\* sendEndObservation, after which ReceiveInternalObservation returns nil
sendEndObservation(a) ==
  /\ obsPc[a] = "end"
  /\ broadcast' = SubmitBroadcast(broadcast, BroadcastMessage(actSb[a], a, "end", "manager"))
  /\ submitted' = [submitted EXCEPT ![a] = Append(@, Submission("end", "manager"))]
  /\ endData' = [endData EXCEPT ![a] = Append(@, SynthesizedEndData(obsType[a], obsData[a]))]
  /\ obsPc' = [obsPc EXCEPT ![a] = "none"]
  /\ obsReply' = [obsReply EXCEPT ![a] = ObservationReply(FALSE)]
  /\ UNCHANGED <<startedBefore, audience, rejected, actPc, actSb, actType, requestBody, obsData, hsOutcome, execPc, execN, obsType,
                 cPc, cSb, send, received, frames, missed, connVars>>

\* ================================================= Hub.Run and the clients
\* ServeWs: SandboxExists under RLock, upgrade, then block on h.register
ServeWs(c, s) ==
  /\ ~muHeld
  /\ cPc[c] = "new"
  /\ s \in DOMAIN sandboxes
  /\ cPc' = [cPc EXCEPT ![c] = "connecting"]
  /\ cSb' = [cSb EXCEPT ![c] = s]
  /\ UNCHANGED <<actVars, broadcast, send, received, frames, missed, connVars>>

\* Hub.Run, case client := <-h.register: the client enters h.clients and the
\* subscription set of its sandbox, which is made when it is missing; ServeWs
\* then starts writePump and readPump
HubRegister(c) ==
  /\ cPc[c] = "connecting"
  /\ cPc' = [cPc EXCEPT ![c] = "registered"]
  /\ hClients' = hClients \cup {c}
  /\ hSubs' = [s \in DOMAIN hSubs \cup {cSb[c]} |-> sandboxSubscriptions(s) \cup
                                                      (IF s = cSb[c] THEN {c} ELSE {})]
  /\ rdPc' = [rdPc EXCEPT ![c] = "reading"]
  /\ wrPc' = [wrPc EXCEPT ![c] = "running"]
  /\ UNCHANGED <<actVars, broadcast, cSb, send, received, frames, missed,
                 chClosed, bts, btsUnreg, hubPanic>>

\* readPump: conn.ReadMessage returns an error (the peer left, or the
\* connection was closed); the deferred function blocks on h.unregister <- c
ReadError(c) ==
  /\ rdPc[c] = "reading"
  /\ rdPc' = [rdPc EXCEPT ![c] = "unregistering"]
  /\ UNCHANGED <<actVars, broadcast, cPc, cSb, send, received, frames, missed,
                 hClients, hSubs, chClosed, wrPc, bts, btsUnreg, hubPanic>>

\* h.sandboxSubscriptions after delete(subs, client): the entry of the sandbox
\* is deleted when its set becomes empty
SubsWithout(c) ==
  LET s == cSb[c]
  IN IF s \notin DOMAIN hSubs THEN hSubs
     ELSE IF hSubs[s] \ {c} = {} THEN [x \in DOMAIN hSubs \ {s} |-> hSubs[x]]
     ELSE [hSubs EXCEPT ![s] = @ \ {c}]

\* a slip the code does not make: an unregister case that keeps the emptied
\* subscription set of the sandbox
UnregisterKeepingSet(c) ==
  IF c \in hClients
    THEN /\ cPc' = [cPc EXCEPT ![c] = "closed"]
         /\ hClients' = hClients \ {c}
         /\ chClosed' = [chClosed EXCEPT ![c] = TRUE]
         /\ hubPanic' = IF chClosed[c] THEN hubPanic \cup {"close of closed channel"} ELSE hubPanic
         /\ hSubs' = IF cSb[c] \in DOMAIN hSubs THEN [hSubs EXCEPT ![cSb[c]] = @ \ {c}] ELSE hSubs
         /\ send' = [send EXCEPT ![c] = <<>>]
    ELSE UNCHANGED <<cPc, hClients, chClosed, hubPanic, hSubs, send>>

\* a slip the code does not make: an unregister case that leaves client.send
\* open
UnregisterLeavingOpen(c) ==
  IF c \in hClients
    THEN /\ cPc' = [cPc EXCEPT ![c] = "closed"]
         /\ hClients' = hClients \ {c}
         /\ chClosed' = chClosed
         /\ hubPanic' = hubPanic
         /\ hSubs' = SubsWithout(c)
         /\ send' = [send EXCEPT ![c] = <<>>]
    ELSE UNCHANGED <<cPc, hClients, chClosed, hubPanic, hSubs, send>>

\* Hub.Run, case client := <-h.unregister: only a client that is in h.clients
\* is dropped, its client.send closed and its subscription removed
Unregister(c) ==
  IF c \in hClients
    THEN /\ cPc' = [cPc EXCEPT ![c] = "closed"]
         /\ hClients' = hClients \ {c}
         /\ chClosed' = [chClosed EXCEPT ![c] = TRUE]
         /\ hubPanic' = IF chClosed[c] THEN hubPanic \cup {"close of closed channel"} ELSE hubPanic
         /\ hSubs' = SubsWithout(c)
         /\ send' = [send EXCEPT ![c] = <<>>]
    ELSE UNCHANGED <<cPc, hClients, chClosed, hubPanic, hSubs, send>>

\* Hub.Run receives the request readPump sent on h.unregister; readPump then
\* closes the connection and ends
HubUnregister(c) ==
  /\ rdPc[c] = "unregistering"
  /\ Unregister(c)
  /\ rdPc' = [rdPc EXCEPT ![c] = "done"]
  /\ UNCHANGED <<actVars, broadcast, cSb, received, frames, missed, wrPc, bts, btsUnreg>>

\* writePump: conn.WriteMessage fails (for a message or a ping); the pump
\* returns and its deferred function closes the connection
WriteError(c) ==
  /\ wrPc[c] = "running"
  /\ wrPc' = [wrPc EXCEPT ![c] = "done"]
  /\ UNCHANGED <<actVars, broadcast, cPc, cSb, send, received, frames, missed,
                 hClients, hSubs, chClosed, rdPc, bts, btsUnreg, hubPanic>>

\* writePump: the receive from the closed client.send gives !ok; the pump
\* writes a close message, returns and closes the connection
WriteClosed(c) ==
  /\ wrPc[c] = "running"
  /\ chClosed[c]
  /\ send[c] = <<>>
  /\ wrPc' = [wrPc EXCEPT ![c] = "done"]
  /\ UNCHANGED <<actVars, broadcast, cPc, cSb, send, received, frames, missed,
                 hClients, hSubs, chClosed, rdPc, bts, btsUnreg, hubPanic>>

\* the connection is closed by the deferred function of either pump
ConnClosed(c) == wrPc[c] = "done" \/ rdPc[c] = "done"

\* BroadcastToSandbox: the subscribers of the sandbox are copied under RLock;
\* the call returns at once when there are none
BroadcastToSandbox(s) ==
  /\ bts.pc = "idle"
  /\ bts.calls < MaxDirectCalls
  /\ bts' = IF sandboxSubscriptions(s) = {}
              THEN [bts EXCEPT !.calls = @ + 1]
              ELSE [pc |-> "sending", sb |-> s, todo |-> sandboxSubscriptions(s),
                    calls |-> bts.calls + 1]
  /\ UNCHANGED <<actVars, broadcast, cPc, cSb, send, received, frames, missed,
                 hClients, hSubs, chClosed, rdPc, wrPc, btsUnreg, hubPanic>>

\* BroadcastToSandbox, the loop over the copy, run without the lock: a
\* non-blocking send on client.send, which panics when Hub.Run has closed the
\* channel; on a full buffer a goroutine is started that sends the client on
\* h.unregister
BroadcastToSandboxSend(c) ==
  /\ bts.pc = "sending"
  /\ c \in bts.todo
  /\ bts' = [bts EXCEPT !.todo = @ \ {c},
                         !.pc = IF bts.todo = {c} THEN "idle" ELSE "sending"]
  /\ IF chClosed[c]
       THEN /\ hubPanic' = hubPanic \cup {"send on closed channel"}
            /\ UNCHANGED <<send, btsUnreg>>
       ELSE IF Len(send[c]) < SendCap
         THEN /\ send' = [send EXCEPT ![c] = Append(@, BroadcastMessage(bts.sb, 0, "direct", "caller"))]
              /\ UNCHANGED <<hubPanic, btsUnreg>>
         ELSE /\ btsUnreg' = [btsUnreg EXCEPT ![c] = @ + 1]
              /\ UNCHANGED <<hubPanic, send>>
  /\ UNCHANGED <<actVars, broadcast, cPc, cSb, received, frames, missed,
                 hClients, hSubs, chClosed, rdPc, wrPc>>

\* Hub.Run receives the request of a goroutine BroadcastToSandbox started
HubUnregisterRequested(c) ==
  /\ btsUnreg[c] > 0
  /\ Unregister(c)
  /\ btsUnreg' = [btsUnreg EXCEPT ![c] = @ - 1]
  /\ UNCHANGED <<actVars, broadcast, cSb, received, frames, missed, rdPc, wrPc, bts>>

\* a slip the code does not make: a dispatcher that serves the newest queued
\* message first
HubBroadcastNewest ==
  /\ broadcast # <<>>
  /\ LET m == broadcast[Len(broadcast)]
         subs == sandboxSubscriptions(m.SandboxID)
     IN /\ send' = [c \in ClientIds |->
                      IF c \in subs /\ Len(send[c]) < SendCap
                        THEN Append(send[c], m) ELSE send[c]]
        /\ missed' = [c \in ClientIds |->
                      IF c \in subs /\ Len(send[c]) >= SendCap
                        THEN missed[c] \cup {m} ELSE missed[c]]
  /\ broadcast' = SubSeq(broadcast, 1, Len(broadcast) - 1)
  /\ UNCHANGED <<actVars, cPc, cSb, received, frames, connVars>>

\* a slip the code does not make: a plain send on client.send, which waits for
\* room in the buffer of every subscriber
HubBroadcastBlocking ==
  /\ broadcast # <<>>
  /\ LET m == Head(broadcast)
         subs == sandboxSubscriptions(m.SandboxID)
     IN /\ \A c \in subs : Len(send[c]) < SendCap
        /\ send' = [c \in ClientIds |-> IF c \in subs THEN Append(send[c], m) ELSE send[c]]
        /\ missed' = missed
  /\ broadcast' = Tail(broadcast)
  /\ UNCHANGED <<actVars, cPc, cSb, received, frames, connVars>>

\* Hub.Run, case broadcastMsg := <-h.broadcast: a non-blocking send to every
\* subscriber of the sandbox; on a full client.send the default branch only
\* logs, the client stays registered
HubBroadcast ==
  /\ broadcast # <<>>
  /\ LET m == Head(broadcast)
         subs == sandboxSubscriptions(m.SandboxID)
     IN /\ send' = [c \in ClientIds |->
                      IF c \in subs /\ Len(send[c]) < SendCap
                        THEN Append(send[c], m) ELSE send[c]]
        /\ missed' = [c \in ClientIds |->
                      IF c \in subs /\ Len(send[c]) >= SendCap
                        THEN missed[c] \cup {m} ELSE missed[c]]
  /\ broadcast' = Tail(broadcast)
  /\ UNCHANGED <<actVars, cPc, cSb, received, frames, connVars>>

\* a slip the code does not make: taking a message off client.send without
\* writing it
writePumpDiscard(c) ==
  /\ cPc[c] = "registered"
  /\ send[c] # <<>>
  /\ received' = received
  /\ frames' = frames
  /\ send' = [send EXCEPT ![c] = Tail(@)]
  /\ UNCHANGED <<actVars, broadcast, cPc, cSb, missed, connVars>>

\* the earlier writePump (ws/client.go 99-165): a message that is queued while
\* the frame's writer is open is added to that frame after a newline
writePumpJoining(c) ==
  /\ cPc[c] = "registered"
  /\ send[c] # <<>>
  /\ received' = [received EXCEPT ![c] = Append(@, Head(send[c]))]
  /\ frames' = [frames EXCEPT ![c] =
                  IF @ = <<>> THEN <<1>> ELSE [@ EXCEPT ![Len(@)] = @ + 1]]
  /\ send' = [send EXCEPT ![c] = Tail(@)]
  /\ UNCHANGED <<actVars, broadcast, cPc, cSb, missed, connVars>>

\* writePump: one message from client.send becomes one text frame
\* (conn.WriteMessage(websocket.TextMessage, message))
writePump(c) ==
  /\ cPc[c] = "registered"
  /\ wrPc[c] = "running"
  /\ send[c] # <<>>
  /\ received' = [received EXCEPT ![c] = Append(@, Head(send[c]))]
  /\ frames' = [frames EXCEPT ![c] = Append(@, 1)]
  /\ send' = [send EXCEPT ![c] = Tail(@)]
  /\ UNCHANGED <<actVars, broadcast, cPc, cSb, missed, connVars>>

\* ========================================== the REST handlers (api handlers)
\* a space name is the sequence of its characters; NewSpaceManager names the
\* space it starts with "Default Space"
DefaultSpaceName == <<"D", "e", "f", "a", "u", "l", "t", " ", "S", "p", "a", "c", "e">>

\* a slip the code does not make: CreateSpace without the loop over the names
NameNeverTaken(name) == FALSE

\* the loop of SpaceManager.CreateSpace over sm.spaces: an entry has the
\* name, and CreateSpace returns ErrSpaceNameConflict
NameTaken(name) == \E e \in DOMAIN spaces : spaceName[e] = name

\* uuid.NewString() in CreateSpace: an id never handed out before
FreshSpace(sp) == sp \notin issued /\ (sp = "sp3" => "sp2" \in issued)

\* SpaceManager.CreateSpace, all of it under sm.mu: a taken name returns the
\* conflict and stores nothing, any other is stored under a fresh uuid
CreateSpace(sp, name) ==
  IF NameTaken(name)
    THEN UNCHANGED <<lifeVars, issued, spaceName>>
    ELSE /\ FreshSpace(sp)
         /\ issued' = issued \cup {sp}
         /\ spaces' = (sp :> {}) @@ spaces
         /\ spaceName' = (sp :> name) @@ spaceName
         /\ UNCHANGED <<sandboxes, creating, container, delPc, delSb, delSpaceID, delErr, delStopErr,
                        delResult, delAfter, delReturned, destroyers, delCalls, dsPc, dsTodo>>

\* DeleteSpaceHandler: h.spaceManager.DeleteSpace, which removes the space
\* entry and nothing else (an unknown space answers 404 and changes nothing);
\* SandboxManager.DeleteSpace is not on this path
DeleteSpaceHandler(sp) ==
  /\ sp \in DOMAIN spaces
  /\ spaces' = MapDelete(spaces, sp)
  /\ UNCHANGED <<sandboxes, creating, container, delPc, delSb, delSpaceID, delErr, delStopErr,
                 delResult, delAfter, delReturned, destroyers, delCalls, dsPc, dsTodo,
                 issued, spaceName, apiResp>>

\* what a sandbox-scoped handler answered: the endpoint, the path's space and
\* sandbox, the status and the message; owner is the space the sandbox belonged
\* to when the handler looked (NoSpace: not in the index)
Response(ep, sp, s, status, body) ==
  [ep |-> ep, space |-> sp, sandbox |-> s, status |-> status, body |-> body,
   owner |-> IF s \in DOMAIN sandboxes THEN sandboxes[s].SpaceID ELSE NoSpace]

NoResponse ==
  [ep |-> "none", space |-> NoSpace, sandbox |-> NoSandbox, status |-> NoReply,
   body |-> <<>>, owner |-> NoSpace]

\* what CreateSpaceHandler answered for the name it was given
SpaceResponse(status, text, name) ==
  [ep |-> "create_space", space |-> NoSpace, sandbox |-> NoSandbox, status |-> status,
   body |-> <<text, name>>, owner |-> NoSpace]

\* CreateSpaceHandler: 400 for an empty name, 409 for ErrSpaceNameConflict,
\* 201 with the new space otherwise
CreateSpaceHandler(sp, name) ==
  IF name = <<>>
    THEN /\ apiResp' = SpaceResponse(StatusBadRequest, "Name is required", name)
         /\ UNCHANGED <<lifeVars, issued, spaceName>>
    ELSE /\ CreateSpace(sp, name)
         /\ apiResp' = IF NameTaken(name)
                          THEN SpaceResponse(StatusConflict, "space name conflict", name)
                          ELSE SpaceResponse(StatusCreated, "created", name)

\* the texts WriteError is given
SpaceNotFound(sp) == <<"Space not found", sp>>
SandboxNotFound(s) == <<"Sandbox not found", s>>
SandboxNotFoundInSpace(s, sp) == <<"Sandbox not found in space", s, sp>>

\* GetSandboxHandler: GetSpace, GetSandbox, the SpaceID comparison
GetSandboxHandler(sp, s) ==
  /\ ~muHeld
  /\ apiResp' =
       IF sp \notin DOMAIN spaces
         THEN Response("get", sp, s, StatusNotFound, SpaceNotFound(sp))
       ELSE IF s \notin DOMAIN sandboxes
         THEN Response("get", sp, s, StatusNotFound, SandboxNotFoundInSpace(s, sp))
       ELSE IF sandboxes[s].SpaceID # sp
         THEN Response("get", sp, s, StatusNotFound, SandboxNotFoundInSpace(s, sp))
       ELSE Response("get", sp, s, StatusOK, <<"sandbox", s>>)
  /\ UNCHANGED <<lifeVars, actVars, hubVars, issued, spaceName>>

\* a slip the code does not make: deleting without the SpaceID comparison
DeleteSandboxHandlerUnscoped(p, sp, s) ==
  /\ ~muHeld
  /\ IF sp \notin DOMAIN spaces
       THEN /\ apiResp' = Response("delete", sp, s, StatusNotFound, SpaceNotFound(sp))
            /\ UNCHANGED lifeVars
     ELSE IF s \notin DOMAIN sandboxes
       THEN /\ apiResp' = Response("delete", sp, s, StatusNotFound, SandboxNotFound(s))
            /\ UNCHANGED lifeVars
     ELSE /\ apiResp' = Response("delete", sp, s, NoReply, <<>>)
          /\ DeleteSandbox(p, s)
  /\ UNCHANGED <<actVars, hubVars, issued, spaceName>>

\* DeleteSandboxHandler: GetSpace, GetSandbox, the SpaceID comparison, then
\* DeleteSandbox (whose result is the answer)
DeleteSandboxHandler(p, sp, s) ==
  /\ ~muHeld
  /\ IF sp \notin DOMAIN spaces
       THEN /\ apiResp' = Response("delete", sp, s, StatusNotFound, SpaceNotFound(sp))
            /\ UNCHANGED lifeVars
     ELSE IF s \notin DOMAIN sandboxes
       THEN /\ apiResp' = Response("delete", sp, s, StatusNotFound, SandboxNotFound(s))
            /\ UNCHANGED lifeVars
     ELSE IF sandboxes[s].SpaceID # sp
       THEN /\ apiResp' = Response("delete", sp, s, StatusNotFound, SandboxNotFoundInSpace(s, sp))
            /\ UNCHANGED lifeVars
     ELSE /\ apiResp' = Response("delete", sp, s, NoReply, <<>>)
          /\ DeleteSandbox(p, s)
  /\ UNCHANGED <<actVars, hubVars, issued, spaceName>>

\* PostShellCommandHandler (t = "shell") and PostIPythonCellHandler
\* (t = "ipython"): GetSandbox, the SpaceID comparison, then InitiateAction and
\* 202 with the action id
PostActionHandler(a, sp, s, t) ==
  /\ ~muHeld
  /\ FreshAction(a)
  /\ IF s \notin DOMAIN sandboxes
       THEN /\ apiResp' = Response(t, sp, s, StatusNotFound, SandboxNotFound(s))
            /\ UNCHANGED <<actVars, hubVars>>
     ELSE IF sandboxes[s].SpaceID # sp
       THEN /\ apiResp' = Response(t, sp, s, StatusNotFound, SandboxNotFoundInSpace(s, sp))
            /\ UNCHANGED <<actVars, hubVars>>
     ELSE /\ apiResp' = Response(t, sp, s, StatusAccepted, <<"action_id">>)
          /\ InitiateAction(a, s, t)
  /\ UNCHANGED <<lifeVars, issued, spaceName>>

\* ================================================================ the system
\* NewSpaceManager creates the default space; NewSandboxManager and NewHub
\* start empty
Init ==
  /\ sandboxes = <<>>
  /\ spaces = [sp \in {DefaultSpaceID} |-> {}]
  /\ creating = NoCreate
  /\ container = [s \in SandboxIds |-> "none"]
  /\ delPc = [p \in Procs |-> "idle"]
  /\ delSb = [p \in Procs |-> NoSandbox]
  /\ delSpaceID = [p \in Procs |-> NoSpace]
  /\ delErr = [p \in Procs |-> FALSE]
  /\ delStopErr = [p \in Procs |-> "none"]
  /\ delResult = [p \in Procs |-> "none"]
  /\ delAfter = [p \in Procs |-> FALSE]
  /\ delReturned = {}
  /\ destroyers = [s \in SandboxIds |-> {}]
  /\ delCalls = 0
  /\ dsPc = "idle"
  /\ dsTodo = {}
  /\ issued = {DefaultSpaceID}
  /\ spaceName = [sp \in {DefaultSpaceID} |-> DefaultSpaceName]
  /\ apiResp = NoResponse
  /\ rejected = {}
  /\ actPc = [a \in ActionIds |-> "unused"]
  /\ actSb = [a \in ActionIds |-> NoSandbox]
  /\ actType = [a \in ActionIds |-> "none"]
  /\ hsOutcome = [a \in ActionIds |-> "none"]
  /\ execPc = [a \in ActionIds |-> "none"]
  /\ execN = [a \in ActionIds |-> 0]
  /\ obsType = [a \in ActionIds |-> "none"]
  /\ obsPc = [a \in ActionIds |-> "none"]
  /\ obsReply = [a \in ActionIds |-> NoReply]
  /\ requestBody = [a \in ActionIds |-> NoBody]
  /\ obsData = [a \in ActionIds |-> NoFields]
  /\ endData = [a \in ActionIds |-> <<>>]
  /\ submitted = [a \in ActionIds |-> <<>>]
  /\ startedBefore = [a \in ActionIds |-> {}]
  /\ audience = [a \in ActionIds |-> {}]
  /\ broadcast = <<>>
  /\ cPc = [c \in ClientIds |-> "new"]
  /\ cSb = [c \in ClientIds |-> NoSandbox]
  /\ send = [c \in ClientIds |-> <<>>]
  /\ received = [c \in ClientIds |-> <<>>]
  /\ frames = [c \in ClientIds |-> <<>>]
  /\ missed = [c \in ClientIds |-> {}]
  /\ hClients = {}
  /\ hSubs = <<>>
  /\ chClosed = [c \in ClientIds |-> FALSE]
  /\ rdPc = [c \in ClientIds |-> "none"]
  /\ wrPc = [c \in ClientIds |-> "none"]
  /\ bts = [pc |-> "idle", sb |-> NoSandbox, todo |-> {}, calls |-> 0]
  /\ btsUnreg = [c \in ClientIds |-> 0]
  /\ hubPanic = {}

\* CreateSandbox on the sandboxes S, with an engine that shows the binding at
\* the first inspect and an executor that answers the first probe; the call
\* can still fail at the image, at create, at start and in the probe loop
CreateStep(S) ==
  \/ \E s \in S, sp \in SpaceIds : CreateBegin(s, sp) /\ UNCHANGED <<actVars, hubVars, apiVars>>
  \/ CreateContainer /\ UNCHANGED <<actVars, hubVars, apiVars>>
  \/ CreateStart /\ UNCHANGED <<actVars, hubVars, apiVars>>
  \/ \E ans \in {"port"} : CreateDiscover(ans) /\ UNCHANGED <<actVars, hubVars, apiVars>>
  \/ \E ans \in {"2xx"} : CreateProbe(ans) /\ UNCHANGED <<actVars, hubVars, apiVars>>
  \/ \E removed \in BOOLEAN : CreateFail(removed) /\ UNCHANGED <<actVars, hubVars, apiVars>>
  \/ CreateFinish /\ UNCHANGED <<actVars, hubVars, apiVars>>

\* DeleteSandbox on the sandboxes S, entered by the API callers P
DeleteStep(S, P) ==
  \/ \E p \in P, s \in S : DeleteSandbox(p, s) /\ UNCHANGED <<actVars, hubVars, apiVars>>
  \/ \E p \in Procs : DelStop(p) /\ UNCHANGED <<actVars, hubVars, apiVars>>
  \/ \E p \in Procs : DelRemove(p) /\ UNCHANGED <<actVars, hubVars, apiVars>>
  \/ \E p \in Procs : DelUnindex(p) /\ UNCHANGED <<actVars, hubVars, apiVars>>
  \/ \E p \in Procs : DelReturn(p) /\ UNCHANGED <<actVars, hubVars, apiVars>>

\* Manager.DeleteSpace
SpaceStep ==
  \/ \E sp \in SpaceIds : DeleteSpaceBegin(sp) /\ UNCHANGED <<actVars, hubVars, apiVars>>
  \/ \E s \in SandboxIds : DeleteSpaceNext(s) /\ UNCHANGED <<actVars, hubVars, apiVars>>
  \/ DeleteSpaceFinish /\ UNCHANGED <<actVars, hubVars, apiVars>>

\* the action endpoints and the handshake goroutines for the action ids A
ActionStep(A, S, T, O) ==
  \/ \E a \in A, s \in S, t \in T : InitiateAction(a, s, t) /\ UNCHANGED <<lifeVars, apiVars>>
  \/ \E a \in A : HandleStart(a) /\ UNCHANGED <<lifeVars, apiVars>>
  \/ \E a \in A, o \in O : HandleResponse(a, o) /\ UNCHANGED <<lifeVars, apiVars>>
  \/ \E a \in A : HandleFailEnd(a) /\ UNCHANGED <<lifeVars, apiVars>>

\* the executor pushing observations of the types E and the manager's
\* internal endpoint
ObservationStep(E, D) ==
  \/ \E a \in ActionIds : ExecStart(a) /\ UNCHANGED <<lifeVars, apiVars>>
  \/ \E a \in ActionIds, t \in E, d \in D : ExecPushData(a, t, d) /\ UNCHANGED <<lifeVars, apiVars>>
  \/ \E a \in ActionIds : RecvCheck(a) /\ UNCHANGED <<lifeVars, apiVars>>
  \/ \E a \in ActionIds : RecvBroadcast(a) /\ UNCHANGED <<lifeVars, apiVars>>
  \/ \E a \in ActionIds : sendEndObservation(a) /\ UNCHANGED <<lifeVars, apiVars>>

\* the hub's dispatcher and the websocket clients C
HubStep(C) ==
  \/ \E c \in C, s \in SandboxIds : ServeWs(c, s) /\ UNCHANGED <<lifeVars, apiVars>>
  \/ \E c \in C : HubRegister(c) /\ UNCHANGED <<lifeVars, apiVars>>
  \/ \E c \in C : ReadError(c) /\ UNCHANGED <<lifeVars, apiVars>>
  \/ \E c \in C : HubUnregister(c) /\ UNCHANGED <<lifeVars, apiVars>>
  \/ HubBroadcast /\ UNCHANGED <<lifeVars, apiVars>>
  \/ \E c \in C : writePump(c) /\ UNCHANGED <<lifeVars, apiVars>>

\* the manager's side of the observation pipeline: one sandbox that is
\* created and deleted, shell actions with every handshake outcome, an executor
\* pushing every observation type, and the hub's dispatcher draining its queue
Next ==
  \/ CreateStep({"s1"})
  \/ DeleteStep({"s1"}, {"d1"})
  \/ ActionStep({1}, {"s1"}, {"shell"}, HandshakeOutcomes)
  \/ ObservationStep(ExecTypes, {NoFields})
  \/ HubBroadcast /\ UNCHANGED <<lifeVars, apiVars>>

Spec == Init /\ [][Next]_vars

\* the lifecycle alone: CreateSandbox, DeleteSandbox, DeleteSpace and the
\* admission check of InitiateAction
LifecycleNext ==
  \/ CreateStep({"s1"})
  \/ DeleteStep({"s1"}, ApiProcs)
  \/ SpaceStep
  \/ /\ InitiateAction(1, "s1", "shell")
     /\ UNCHANGED <<lifeVars, apiVars>>

LifecycleSpec == Init /\ [][LifecycleNext]_vars

\* the hub's side: actions on one sandbox whose observations reach websocket
\* clients through the hub
HubNext ==
  \/ CreateStep({"s1"})
  \/ ActionStep(ActionIds, {"s1"}, {"shell"}, {"ok", "status"})
  \/ ObservationStep({"result"}, {NoFields})
  \/ HubStep({1})

HubSpec == Init /\ [][HubNext]_vars

\* IPython cells on one sandbox: the executor's kernel lock against the
\* manager's dispatch
KernelNext ==
  \/ CreateStep({"s1"})
  \/ ActionStep(ActionIds, {"s1"}, {"ipython"}, {"ok", "status"})
  \/ ObservationStep({"result"}, {NoFields})
  \/ HubStep({1})

KernelSpec == Init /\ [][KernelNext]_vars

\* one action from dispatch to the client's socket, with the sandbox deleted
\* at any moment
FairNext ==
  \/ CreateStep({"s1"})
  \/ DeleteStep({"s1"}, {"d1"})
  \/ ActionStep({1}, {"s1"}, {"shell"}, {"ok", "status"})
  \/ ObservationStep({"result"}, {NoFields})
  \/ HubStep({1})

\* goroutines that are never blocked by a peer keep running: the hub's
\* dispatcher, each client's writePump, the handshake goroutine and the
\* internal observation handler
Fairness ==
  /\ WF_vars(HubBroadcast /\ UNCHANGED <<lifeVars, apiVars>>)
  /\ \A c \in ClientIds : WF_vars(writePump(c) /\ UNCHANGED <<lifeVars, apiVars>>)
  /\ \A a \in ActionIds :
       WF_vars((HandleStart(a) \/ HandleResponse(a, "status") \/ HandleFailEnd(a))
                 /\ UNCHANGED <<lifeVars, apiVars>>)
  /\ \A a \in ActionIds :
       WF_vars((RecvCheck(a) \/ RecvBroadcast(a) \/ sendEndObservation(a))
                 /\ UNCHANGED <<lifeVars, apiVars>>)

FairSpec == Init /\ [][FairNext]_vars /\ Fairness

\* DeleteSandbox after its entry: the steps of the calls that are under way
DeletionStep ==
  \/ \E p \in Procs : DelStop(p) /\ UNCHANGED <<actVars, hubVars, apiVars>>
  \/ \E p \in Procs : DelRemove(p) /\ UNCHANGED <<actVars, hubVars, apiVars>>
  \/ \E p \in Procs : DelUnindex(p) /\ UNCHANGED <<actVars, hubVars, apiVars>>
  \/ \E p \in Procs : DelReturn(p) /\ UNCHANGED <<actVars, hubVars, apiVars>>

\* the space endpoints, spaces being created under the names N
SpaceApiStep(N) ==
  \/ \E sp \in SpaceIds, name \in N : CreateSpaceHandler(sp, name) /\ UNCHANGED <<actVars, hubVars>>
  \/ \E sp \in SpaceIds : DeleteSpaceHandler(sp) /\ UNCHANGED <<actVars, hubVars>>

\* the sandbox-scoped endpoints, called with any space and sandbox in the path
SandboxApiStep(S, P, A, T) ==
  \/ \E sp \in SpaceIds, s \in S : GetSandboxHandler(sp, s)
  \/ \E p \in P, sp \in SpaceIds, s \in S : DeleteSandboxHandler(p, sp, s)
  \/ \E a \in A, sp \in SpaceIds, s \in S, t \in T : PostActionHandler(a, sp, s, t)

\* the REST API over two spaces: spaces and sandboxes are created and deleted
\* and every sandbox-scoped endpoint is called through every space
ApiNext ==
  \/ CreateStep({"s1"})
  \/ SpaceApiStep({<<"d", "e", "v">>})
  \/ SandboxApiStep({"s1"}, {"d1"}, {1}, {"shell", "ipython"})
  \/ DeletionStep
  \/ \E a \in ActionIds : HandleStart(a) /\ UNCHANGED <<lifeVars, apiVars>>

ApiSpec == Init /\ [][ApiNext]_vars

\* the internal observation endpoint fed with parseable and unparseable
\* bodies, the sandbox being deleted at any moment
ObsNext ==
  \/ CreateStep({"s1"})
  \/ DeleteStep({"s1"}, {"d1"})
  \/ ActionStep({1}, {"s1"}, {"shell"}, {"ok", "status"})
  \/ ObservationStep(ObservationBodies, {NoFields})
  \/ HubBroadcast /\ UNCHANGED <<lifeVars, apiVars>>

ObsSpec == Init /\ [][ObsNext]_vars

\* the exit codes and error strings a pushed result or error may carry
PushedFields ==
  {ObsFields(c, e) : c \in {{}, {0}, {3}}, e \in {{}, {"boom"}}}

\* results and errors pushed with and without exit_code and error
SynthNext ==
  \/ CreateStep({"s1"})
  \/ ActionStep({1}, {"s1"}, {"shell"}, {"ok", "status"})
  \/ ObservationStep({"result", "error"}, PushedFields)
  \/ HubBroadcast /\ UNCHANGED <<lifeVars, apiVars>>

SynthSpec == Init /\ [][SynthNext]_vars

\* an id a caller may put under action_id in its request
CallerActionId == 7

\* request bodies of the shell endpoint: the command alone, and the command
\* with an action_id key
ShellPayloads == {[command |-> 0], [command |-> 0, action_id |-> CallerActionId]}

\* actions initiated with these payloads, and their handshakes
PayloadNext ==
  \/ CreateStep({"s1"})
  \/ \E a \in ActionIds, pl \in ShellPayloads :
        InitiateActionPayload(a, "s1", "shell", pl) /\ UNCHANGED <<lifeVars, apiVars>>
  \/ \E a \in ActionIds : HandleStart(a) /\ UNCHANGED <<lifeVars, apiVars>>
  \/ \E a \in ActionIds, o \in {"ok", "status"} : HandleResponse(a, o) /\ UNCHANGED <<lifeVars, apiVars>>
  \/ \E a \in ActionIds : HandleFailEnd(a) /\ UNCHANGED <<lifeVars, apiVars>>

PayloadSpec == Init /\ [][PayloadNext]_vars

\* InitiateAction with every kind of request: an existing and a missing
\* sandbox, supported and unsupported action types
RejectNext ==
  \/ CreateStep({"s1"})
  \/ ActionStep(ActionIds, SandboxIds, SupportedActionTypes \cup {"browser"}, {"ok", "status"})
  \/ ObservationStep({"result"}, {NoFields})

RejectSpec == Init /\ [][RejectNext]_vars

\* CreateSandbox with every answer of the engine and of the executor
DiscoverNext ==
  \/ \E s \in SandboxIds : CreateBegin(s, DefaultSpaceID) /\ UNCHANGED <<actVars, hubVars, apiVars>>
  \/ CreateContainer /\ UNCHANGED <<actVars, hubVars, apiVars>>
  \/ CreateStart /\ UNCHANGED <<actVars, hubVars, apiVars>>
  \/ \E ans \in InspectAnswers : CreateDiscover(ans) /\ UNCHANGED <<actVars, hubVars, apiVars>>
  \/ \E ans \in ProbeAnswers : CreateProbe(ans) /\ UNCHANGED <<actVars, hubVars, apiVars>>
  \/ \E removed \in BOOLEAN : CreateFail(removed) /\ UNCHANGED <<actVars, hubVars, apiVars>>
  \/ CreateFinish /\ UNCHANGED <<actVars, hubVars, apiVars>>

\* a CreateSandbox call that has begun
CreateRunning == creating.stage # "none"

\* the call goes on: every engine call and every probe has its own timeout,
\* the pauses are finite, and the probe loop's context expires
DiscoverFairness ==
  WF_vars(CreateRunning /\ DiscoverNext)

DiscoverSpec == Init /\ [][DiscoverNext]_vars /\ DiscoverFairness

\* a name of n characters "a"
LongName(n) == [i \in 1..n |-> "a"]

\* names CreateSpaceHandler is called with: none, the startup space's, two
\* plain ones, one that starts with a hyphen, one in capitals, one of 64
\* characters
RequestedNames ==
  {<<>>, DefaultSpaceName, <<"d", "e", "v">>, <<"q", "a", "-", "1">>, <<"-", "a">>,
   <<"Q", "A">>, LongName(64)}

\* spaces created and deleted under these names, sandboxes created in them
NameNext ==
  \/ CreateStep({"s1"})
  \/ SpaceApiStep(RequestedNames)

NameSpec == Init /\ [][NameNext]_vars

\* routing: two sandboxes, each with actions whose start is pushed, and two
\* websocket clients that subscribe to either
RouteNext ==
  \/ CreateStep(SandboxIds)
  \/ \E a \in ActionIds, s \in SandboxIds :
       InitiateAction(a, s, "shell") /\ UNCHANGED <<lifeVars, apiVars>>
  \/ \E a \in ActionIds : HandleStart(a) /\ UNCHANGED <<lifeVars, apiVars>>
  \/ HubStep(ClientIds)

RouteSpec == Init /\ [][RouteNext]_vars

\* the ends of writePump
PumpStep(C) ==
  \/ \E c \in C : WriteError(c) /\ UNCHANGED <<lifeVars, apiVars>>
  \/ \E c \in C : WriteClosed(c) /\ UNCHANGED <<lifeVars, apiVars>>

\* BroadcastToSandbox on the sandboxes S and the unregister requests it makes
DirectStep(S, C) ==
  \/ \E s \in S : BroadcastToSandbox(s) /\ UNCHANGED <<lifeVars, apiVars>>
  \/ \E c \in C : BroadcastToSandboxSend(c) /\ UNCHANGED <<lifeVars, apiVars>>
  \/ \E c \in C : HubUnregisterRequested(c) /\ UNCHANGED <<lifeVars, apiVars>>

\* connections from upgrade to the end of both pumps: two clients on one
\* sandbox whose action's start is dispatched to them
PumpNext ==
  \/ CreateStep({"s1"})
  \/ InitiateAction(1, "s1", "shell") /\ UNCHANGED <<lifeVars, apiVars>>
  \/ HandleStart(1) /\ UNCHANGED <<lifeVars, apiVars>>
  \/ HubStep(ClientIds)
  \/ PumpStep(ClientIds)

\* Hub.Run takes every request it is sent; a writePump whose channel was
\* closed sees it; a read on a closed connection fails
PumpFairness ==
  \A c \in ClientIds :
    /\ WF_vars(HubUnregister(c) /\ UNCHANGED <<lifeVars, apiVars>>)
    /\ WF_vars(WriteClosed(c) /\ UNCHANGED <<lifeVars, apiVars>>)
    /\ WF_vars(ConnClosed(c) /\ ReadError(c) /\ UNCHANGED <<lifeVars, apiVars>>)

PumpSpec == Init /\ [][PumpNext]_vars /\ PumpFairness

\* the hub's bookkeeping under every entry point: two sandboxes, two clients
\* that do not drain their buffers, dispatch from h.broadcast and direct
\* BroadcastToSandbox calls
ConnNext ==
  \/ \E s \in SandboxIds : CreateBegin(s, DefaultSpaceID) /\ UNCHANGED <<actVars, hubVars, apiVars>>
  \/ CreateContainer /\ UNCHANGED <<actVars, hubVars, apiVars>>
  \/ CreateStart /\ UNCHANGED <<actVars, hubVars, apiVars>>
  \/ \E ans \in {"port"} : CreateDiscover(ans) /\ UNCHANGED <<actVars, hubVars, apiVars>>
  \/ \E ans \in {"2xx"} : CreateProbe(ans) /\ UNCHANGED <<actVars, hubVars, apiVars>>
  \/ CreateFinish /\ UNCHANGED <<actVars, hubVars, apiVars>>
  \/ InitiateAction(1, "s1", "shell") /\ UNCHANGED <<lifeVars, apiVars>>
  \/ HandleStart(1) /\ UNCHANGED <<lifeVars, apiVars>>
  \/ \E c \in ClientIds, s \in SandboxIds : ServeWs(c, s) /\ UNCHANGED <<lifeVars, apiVars>>
  \/ \E c \in ClientIds : HubRegister(c) /\ UNCHANGED <<lifeVars, apiVars>>
  \/ \E c \in ClientIds : ReadError(c) /\ UNCHANGED <<lifeVars, apiVars>>
  \/ \E c \in ClientIds : HubUnregister(c) /\ UNCHANGED <<lifeVars, apiVars>>
  \/ HubBroadcast /\ UNCHANGED <<lifeVars, apiVars>>
  \/ PumpStep(ClientIds)
  \/ DirectStep(SandboxIds, ClientIds)

ConnSpec == Init /\ [][ConnNext]_vars

\* ================================================================== claims
\* number of end observations the manager itself has handed to the hub for
\* action a (an end posted by the executor is not counted)
EndCount(a) ==
  Cardinality({i \in DOMAIN submitted[a] : submitted[a][i] = Submission("end", "manager")})

\* the handshake POST of action a failed
HandshakeFailed(a) == hsOutcome[a] \in {"status", "transport", "timeout"}

\* the action endpoint has answered 202 with the id a
Replied202(a) == actPc[a] # "unused"

\* C1: for every action_id at most one end observation is ever submitted to
\* the Hub by the Manager, whatever the handshake outcome and whatever the
\* executor pushes.
C1_OneEndPerAction == \A a \in ActionIds : EndCount(a) <= 1

\* C3: once the Manager has submitted an end for action A to the Hub, no
\* further observation carrying A's action_id is submitted: the Manager's end
\* is always the last entry of the action's submissions.
C3_NothingAfterEnd ==
  \A a \in ActionIds : \A i \in DOMAIN submitted[a] :
    submitted[a][i] = Submission("end", "manager") => i = Len(submitted[a])

\* C7 as stated: no caller holds a 202 with an action_id for an action whose
\* executor POST fails.
C7_AcceptedImpliesHandshakeOk ==
  \A a \in ActionIds : Replied202(a) => ~HandshakeFailed(a)

\* C7 amended: the 202 is answered whatever the handshake will do; a failed
\* handshake is reported on the stream: once the handshake goroutine of an
\* answered action has ended after a failed POST, it has submitted start first,
\* then an error and, after that error, an end.
C7_FailureReportedOnStream ==
  \A a \in ActionIds :
    (HandshakeFailed(a) /\ actPc[a] = "done") =>
       /\ Replied202(a)
       /\ submitted[a][1] = Submission("start", "manager")
       /\ \E i, j \in DOMAIN submitted[a] :
            /\ i < j
            /\ submitted[a][i] = Submission("error", "manager")
            /\ submitted[a][j] = Submission("end", "manager")

C7_Witness ==
  \E a \in ActionIds : hsOutcome[a] = "status" /\ actPc[a] = "done" /\ Replied202(a)

\* the lifecycle state of sandbox s as the specification names it
SandboxPhase(s) ==
  IF creating.sid = s THEN "CREATING"
  ELSE IF \E p \in Procs : delSb[p] = s /\ delPc[p] # "idle" THEN "DELETING"
  ELSE IF s \in DOMAIN sandboxes THEN "READY"
  ELSE IF container[s] = "none" THEN "ABSENT"
  ELSE "DELETED"

\* C8: InitiateAction succeeds only for a sandbox in state READY: every step
\* that accepts an action finds the action's sandbox READY.
C8_InitiateOnlyWhenReady ==
  [][\A a \in ActionIds :
       (actPc[a] = "unused" /\ actPc'[a] = "spawned") => SandboxPhase(actSb'[a]) = "READY"]_vars

\* C9: a DeleteSandbox(sid) that begins after a DeleteSandbox(sid) on the
\* existing sandbox has returned (with or without a container error) returns
\* SandboxNotFound from its lookup and goes no further: it issues no stop or
\* remove and touches neither the index nor the space sets.
C9_DeleteIdempotent ==
  \A p \in Procs : delAfter[p] => (delPc[p] = "idle" /\ delResult[p] = "notfound")

C9_Witness ==
  \E p, q \in Procs :
    /\ p # q
    /\ delAfter[p] /\ delResult[p] = "notfound"
    /\ delSb[q] = delSb[p] /\ delResult[q] = "error" /\ delPc[q] = "idle"

\* C10: container destruction happens once per sandbox: at most one caller of
\* DeleteSandbox (API callers and the DeleteSpace loop) issues stop and
\* force-remove for a sandbox's container.
C10_DestroyedOnce == \A s \in SandboxIds : Cardinality(destroyers[s]) <= 1

\* frame i of client c carries an observation of type t of action a
Got(c, i, a, t) == received[c][i].aid = a /\ received[c][i].type = t

\* C2 as stated: the start of an action is not lost while later observations
\* of the action are delivered: a client that was subscribed when the start was
\* pushed, is still registered and whose buffer never overflowed has received
\* the start before any other observation of that action.
C2_StartNeverLost ==
  \A a \in ActionIds : \A c \in audience[a] :
    (cPc[c] = "registered" /\ missed[c] = {}) =>
      \A i \in DOMAIN received[c] :
        (received[c][i].aid = a /\ received[c][i].type # "start") =>
          \E j \in 1..(i - 1) : Got(c, j, a, "start")

\* C2 amended: the start is submitted to the Hub exactly once per accepted
\* action, as the first submission for its action_id and before the executor
\* is contacted, and a subscriber that receives it receives it once and before
\* every other observation of the action; the start itself may be discarded.
C2_StartSubmittedFirst ==
  \A a \in ActionIds :
    /\ actPc[a] \in {"unused", "spawned"} => (submitted[a] = <<>> /\ execPc[a] = "none")
    /\ actPc[a] \in {"posting", "failEnd", "done"} =>
         (submitted[a] # <<>> /\ submitted[a][1] = Submission("start", "manager"))
    /\ \A i \in DOMAIN submitted[a] : submitted[a][i].type = "start" => i = 1
    /\ \A c \in ClientIds : \A i, j \in DOMAIN received[c] :
         (i # j /\ Got(c, j, a, "start") /\ received[c][i].aid = a) => j < i

C2_Witness ==
  \E a \in ActionIds, c \in ClientIds : \E i, j \in DOMAIN received[c] :
    i < j /\ Got(c, i, a, "start") /\ Got(c, j, a, "end")

\* C5: a registered client never silently misses a message: whenever the Hub
\* could not place a message in a client's outbound buffer, that client is no
\* longer registered.
C5_NoSilentMiss == \A c \in ClientIds : cPc[c] = "registered" => missed[c] = {}

\* the end of action a as the manager submits it
EndMessage(a) == BroadcastMessage(actSb[a], a, "end", "manager")

\* client c has been sent an end of action a
EndReceived(c, a) == \E i \in DOMAIN received[c] : Got(c, i, a, "end")

\* an end of action a is due: its handshake failed, or the executor has pushed
\* a result or an error for it to the internal endpoint
EndDue(a) ==
  \/ HandshakeFailed(a)
  \/ obsPc[a] = "arrived" /\ SynthesizesEnd(obsType[a])

\* C4 as stated: whenever an end is due for an action whose start was emitted,
\* every client subscribed since that start eventually receives an end of the
\* action or is no longer registered (a client whose outbound buffer has
\* overflowed is left out of the statement).
C4_EndAlwaysDelivered ==
  \A a \in ActionIds, c \in ClientIds :
    (EndDue(a) /\ c \in audience[a])
      ~> (EndReceived(c, a) \/ cPc[c] # "registered" \/ missed[c] # {})

\* C4 amended: an end that the Hub's queue has accepted is eventually written
\* to every client subscribed to the sandbox at that moment, unless the client
\* leaves or its outbound buffer is full when the end is dispatched.  (An end
\* submitted to a full queue, or due for a sandbox that has left the index, is
\* not delivered.)
C4_QueuedEndDelivered ==
  \A a \in ActionIds, c \in ClientIds :
    ((\E i \in DOMAIN broadcast : broadcast[i] = EndMessage(a)) /\ c \in sandboxSubscriptions(actSb[a]))
      ~> (EndReceived(c, a) \/ cPc[c] # "registered" \/ EndMessage(a) \in missed[c])

C4_Witness ==
  \E a \in ActionIds, c \in ClientIds :
    EndReceived(c, a) /\ cPc[c] = "registered" /\ c \in audience[a]

IndexOf(sp) == {s \in DOMAIN sandboxes : sandboxes[s].SpaceID = sp}

\* DeleteSandbox calls that have removed the index entry of a sandbox of sp
\* and have not yet unlinked it from the space
Unlinking(sp) == {delSb[p] : p \in {q \in Procs : delPc[q] = "unspace" /\ delSpaceID[q] = sp}}

\* C11 as stated: in every reachable state the sandbox set of every space
\* equals the set of indexed sandboxes whose SpaceID is that space
C11_SpaceSetsMatchIndex ==
  \A sp \in DOMAIN spaces : spaces[sp] = IndexOf(sp)

\* C11 amended: every indexed sandbox of an existing space is in that space's
\* set, and the set holds nothing else except the sandboxes a DeleteSandbox
\* call has taken out of the index and is about to unlink
C11_SpaceSetsCoverIndex ==
  \A sp \in DOMAIN spaces :
    /\ IndexOf(sp) \subseteq spaces[sp]
    /\ spaces[sp] \ IndexOf(sp) \subseteq Unlinking(sp)

\* a DeleteSandbox call between delete(m.sandboxes, id) and the unlink, the
\* space still listing the sandbox
C11_Witness ==
  \E p \in Procs :
    /\ delPc[p] = "unspace"
    /\ delSpaceID[p] \in DOMAIN spaces
    /\ delSb[p] \in spaces[delSpaceID[p]]
    /\ delSb[p] \notin DOMAIN sandboxes

\* ----------------------------------------------------------------- C12
\* C12: the SpaceID of every indexed sandbox names an existing space (a space
\* deleted through the API takes its sandboxes with it, and a CreateSandbox
\* racing with the deletion leaves nothing behind)
C12_IndexedSpaceExists ==
  \A s \in DOMAIN sandboxes : sandboxes[s].SpaceID \in DOMAIN spaces

\* ----------------------------------------------------------------- C13
\* the last answer was to a request that named a sandbox through a space
\* other than its own
CrossSpace(r) == r.owner \notin {NoSpace, r.space}

\* C13: a request that addresses an indexed sandbox through another space is
\* answered 404 with a message built from the path alone, and the step changes
\* nothing but the answer: index, space sets, containers, actions, hub queue
C13_CrossSpaceIsNotFound ==
  [][(apiResp' # apiResp /\ CrossSpace(apiResp'))
       => /\ apiResp'.status = StatusNotFound
          /\ apiResp'.body \in {SpaceNotFound(apiResp'.space),
                                SandboxNotFoundInSpace(apiResp'.sandbox, apiResp'.space)}
          /\ UNCHANGED <<lifeVars, actVars, hubVars>>]_vars

\* a delete and an action request through the wrong space have been answered
C13_Witness ==
  /\ CrossSpace(apiResp)
  /\ apiResp.ep \in {"delete", "shell", "ipython"}
  /\ apiResp.owner = "sp2"

\* ----------------------------------------------------------------- C14
\* C14: whatever an observation's body holds, malformed JSON or a timestamp in
\* another format included, the internal endpoint answers 200
C14_ObservationAlwaysAccepted ==
  \A a \in ActionIds : obsReply[a] \in {NoReply, StatusOK}

\* ----------------------------------------------------------------- C15
\* message m is one the hub was given: some submission of its action has its
\* type and origin, for the action's sandbox
WasSubmitted(m) ==
  /\ m.SandboxID = actSb[m.aid]
  /\ \E j \in DOMAIN submitted[m.aid] : submitted[m.aid][j] = Submission(m.type, m.src)

\* C15: every message a client's writePump takes from client.send goes out as
\* one text frame holding that message as it was submitted; a frame never
\* carries more than one message
C15_OneMessagePerFrame ==
  \A c \in ClientIds :
    /\ Len(frames[c]) = Len(received[c])
    /\ \A i \in DOMAIN frames[c] : frames[c][i] = 1
    /\ \A i \in DOMAIN received[c] : WasSubmitted(received[c][i])

\* a client that has been written two frames while another message waits in
\* its buffer
C15_Witness ==
  \E c \in ClientIds : Len(frames[c]) >= 2 /\ send[c] # <<>>

\* ----------------------------------------------------------------- C16
\* C16: every Manager step that hands a message to Hub.SubmitBroadcast can be
\* taken at once, whatever the state of h.broadcast and of the subscribers'
\* buffers (a full queue discards the message), and the hub's dispatcher is
\* never held up by a subscriber
C16_SubmitNeverBlocks ==
  /\ \A a \in ActionIds :
       /\ actPc[a] = "spawned" => ENABLED HandleStart(a)
       /\ actPc[a] = "posting" => ENABLED HandleResponse(a, "status")
       /\ actPc[a] = "failEnd" => ENABLED HandleFailEnd(a)
       /\ obsPc[a] = "bcast" => ENABLED RecvBroadcast(a)
       /\ obsPc[a] = "end" => ENABLED sendEndObservation(a)
  /\ broadcast # <<>> => ENABLED HubBroadcast

\* an action whose handshake goroutine ran to its end although nothing was
\* ever taken off the full queue: its start is still at the head, and more was
\* submitted than the queue holds
C16_Witness ==
  \E a \in ActionIds :
    /\ actPc[a] = "done"
    /\ Len(submitted[a]) > BroadcastCap
    /\ Len(broadcast) = BroadcastCap
    /\ Head(broadcast) = BroadcastMessage(actSb[a], a, "start", "manager")
    /\ \A b \in ActionIds \ {a} : actPc[b] = "unused"

\* ----------------------------------------------------------------- C17
\* u can be obtained from v by leaving elements out (the order kept)
RECURSIVE IsSubsequence(_, _)
IsSubsequence(u, v) ==
  IF u = <<>> THEN TRUE
  ELSE IF v = <<>> THEN FALSE
  ELSE IF Head(u) = Head(v) THEN IsSubsequence(Tail(u), Tail(v))
  ELSE IsSubsequence(u, Tail(v))

\* what client c received for action a, as submissions, in order of arrival
ReceivedOf(c, a) ==
  LET q == SelectSeq(received[c], LAMBDA m : m.aid = a)
  IN [i \in DOMAIN q |-> Submission(q[i].type, q[i].src)]

\* positions in received[c] of the messages of action a
PositionsOf(c, a) == {i \in DOMAIN received[c] : received[c][i].aid = a}

Dispatching == broadcast # <<>> /\ broadcast' = Tail(broadcast)

\* client c is registered for sandbox s
Subscribed(c, s) == cPc[c] = "registered" /\ cSb[c] = s

\* C18 as stated: a dispatched message is appended, as it is, to client.send
\* of every client subscribed to its sandbox, and client.send of every other
\* client is left alone
C18_RoutedToEverySubscriber ==
  [][Dispatching =>
       \A c \in ClientIds :
         send'[c] = IF Subscribed(c, Head(broadcast).SandboxID)
                      THEN Append(send[c], Head(broadcast)) ELSE send[c]]_vars

\* C18 amended: ... of every client subscribed to its sandbox whose
\* client.send has room; a subscriber whose buffer is full is passed over, and
\* so is every client of another sandbox
C18_RoutedToSubscribersWithRoom ==
  [][Dispatching =>
       \A c \in ClientIds :
         send'[c] = IF Subscribed(c, Head(broadcast).SandboxID) /\ Len(send[c]) < SendCap
                      THEN Append(send[c], Head(broadcast)) ELSE send[c]]_vars

\* clients of two different sandboxes have each been handed a message of
\* their own sandbox
C18_Witness ==
  \E c \in ClientIds : \E d \in ClientIds :
    /\ cSb[c] # cSb[d]
    /\ cPc[c] = "registered" /\ cPc[d] = "registered"
    /\ send[c] \o received[c] # <<>>
    /\ send[d] \o received[d] # <<>>

\* ----------------------------------------------------------------- C19
\* C19: a sandbox enters the index only in the step of a CreateSandbox call
\* that has got its image, started the container, found the agent URL and had
\* /health answer 2xx; InitiateAction accepts an action only for an indexed
\* sandbox, so the first action goes to an executor that has answered healthy
C19_IndexedOnlyWhenHealthy ==
  [][/\ \A s \in SandboxIds :
          (s \notin DOMAIN sandboxes /\ s \in DOMAIN sandboxes')
            => /\ creating.sid = s
               /\ creating.stage = "healthy"
               /\ container[s] = "running"
     /\ \A a \in ActionIds :
          (actSb[a] = NoSandbox /\ actSb'[a] # NoSandbox) => actSb'[a] \in DOMAIN sandboxes]_vars

\* an action has been accepted for a sandbox
C19_Witness ==
  \E a \in ActionIds : actSb[a] \in DOMAIN sandboxes /\ actPc[a] = "spawned"

\* ----------------------------------------------------------------- C20
\* CreateSandbox returns an error: the lock is released from a stage before
\* the health check has passed
CreateReturnsError == creating.stage \in FailStages /\ creating'.sid = NoSandbox

ManagerReports(a) ==
  SelectSeq(submitted[a], LAMBDA e : e.src = "manager" /\ e.type # "end")

\* the end observation handleActionExecution builds after the outcome o
HandshakeEnd(o) == ObsFields({-1}, {HandshakeError(o)})

\* pushes of the executor that make the manager add an end of its own
EndTriggers(a) ==
  Cardinality({i \in DOMAIN submitted[a] :
                 submitted[a][i].src = "agent" /\ submitted[a][i].type \in {"result", "error"}})

\* C21: a handshake POST that fails with a transport error or a status >= 400
\* makes the handshake goroutine submit start, error and an end with exit
\* code -1, in that order and nothing else; after a 2xx it submits nothing
\* after the start. (After a timeout the executor may hold the job, so its
\* pushes are told apart from the goroutine's submissions by their origin.)
C21_HandshakeFailureSequence ==
  \A a \in ActionIds :
    actPc[a] = "done" =>
      /\ hsOutcome[a] \in {"status", "transport"} =>
            /\ submitted[a] = <<Submission("start", "manager"), Submission("error", "manager"),
                                Submission("end", "manager")>>
            /\ endData[a] = <<HandshakeEnd(hsOutcome[a])>>
      /\ hsOutcome[a] = "timeout" =>
            /\ ManagerReports(a) = <<Submission("start", "manager"), Submission("error", "manager")>>
            /\ \E i \in DOMAIN endData[a] : endData[a][i] = HandshakeEnd("timeout")
            /\ EndCount(a) <= 1 + EndTriggers(a)
      /\ hsOutcome[a] = "ok" =>
            /\ ManagerReports(a) = <<Submission("start", "manager")>>
            /\ EndCount(a) <= EndTriggers(a)

C21_Witness ==
  \E a \in ActionIds :
    /\ actPc[a] = "done"
    /\ hsOutcome[a] = "transport"
    /\ Len(submitted[a]) = 3
    /\ endData[a] = <<HandshakeEnd("transport")>>

\* ----------------------------------------------------------------- C22
\* GetSandbox: the state stored under the id
GetSandbox(sid) == sandboxes[sid]

\* C22: a sandbox CreateSandbox returned for space s reads back with
\* space_id s for as long as it is in the index, and the sandbox set of s
\* contains it.
C22_CreatedSandboxListedInItsSpace ==
  \A sid \in DOMAIN sandboxes :
    /\ GetSandbox(sid).SpaceID \in DOMAIN spaces
    /\ sid \in spaces[GetSandbox(sid).SpaceID]

\* ----------------------------------------------------------------- C30
\* caller p of DeleteSandbox leaves the step named pc
Leaves(p, pc) == delPc[p] = pc /\ delPc'[p] # pc

\* C30: DeleteSandbox on an indexed sandbox runs to its end whatever Docker
\* answers: the stop is followed by the forced removal, the removal by the
\* deletion from the index, and the call returns only after the sandbox has
\* left the index and every space's sandbox set; the only error returned is
\* the removal's.
C30_DeleteRunsToTheEnd ==
  [][\A p \in Procs :
       /\ Leaves(p, "stop") => delPc'[p] = "remove" /\ p \in destroyers'[delSb[p]]
       /\ Leaves(p, "remove") => delPc'[p] = "unindex"
       /\ Leaves(p, "unindex") => delPc'[p] = "unspace" /\ delSb[p] \notin DOMAIN sandboxes'
       /\ Leaves(p, "unspace") =>
            /\ delPc'[p] = "idle"
            /\ delResult'[p] = (IF delErr[p] THEN "error" ELSE "ok")
            /\ delSb[p] \notin DOMAIN sandboxes'
            /\ \A sp \in DOMAIN spaces' : delSb[p] \notin spaces'[sp]
       /\ (delPc[p] # "idle" /\ delPc'[p] = "idle") => delPc[p] = "unspace"]_vars

\* a call whose removal failed has returned the error, the sandbox gone from
\* the index and its space all the same
C30_Witness ==
  \E p \in Procs :
    /\ delPc[p] = "idle"
    /\ delResult[p] = "error"
    /\ container[delSb[p]] # "removed"
    /\ delSb[p] \notin DOMAIN sandboxes
    /\ \A sp \in DOMAIN spaces : delSb[p] \notin spaces[sp]

\* ----------------------------------------------------------------- C26
\* number of submissions in q that are bodies the observation endpoint received
AgentCount(q) == Cardinality({i \in DOMAIN q : q[i].src = "agent"})

\* the observation endpoint's call for action a leaves the step named pc
ObsLeaves(a, pc) == obsPc[a] = pc /\ obsPc'[a] # pc

\* C26: every body the observation endpoint receives for an indexed sandbox
\* is handed to the hub once and as it came, whether it parses or not, and a
\* body that does not parse makes the manager build no end.
C26_ReceivedBodySubmittedOnce ==
  [][\A a \in ActionIds :
       /\ (ObsLeaves(a, "arrived") /\ actSb[a] \in DOMAIN sandboxes) => obsPc'[a] = "bcast"
       /\ ObsLeaves(a, "bcast") =>
            /\ submitted'[a] = Append(submitted[a], Submission(obsType[a], "agent"))
            /\ broadcast' = SubmitBroadcast(broadcast,
                                BroadcastMessage(actSb[a], a, obsType[a], "agent"))
            /\ obsType[a] = Unparseable => (obsPc'[a] = "none" /\ endData'[a] = endData[a])
       /\ obsPc[a] # "bcast" => AgentCount(submitted'[a]) = AgentCount(submitted[a])]_vars

C26_Witness ==
  \E a \in ActionIds :
    /\ obsPc[a] = "none"
    /\ submitted[a] # <<>>
    /\ submitted[a][Len(submitted[a])] = Submission(Unparseable, "agent")
    /\ AgentCount(submitted[a]) = execN[a]
    /\ EndCount(a) = 0

\* ----------------------------------------------------------------- C27
\* C27: a body received for a sandbox id that is not in the index is
\* dropped: nothing is submitted, no end is built, no state changes, and the
\* call reports success.
C27_UnknownSandboxDropped ==
  [][\A a \in ActionIds :
       (ObsLeaves(a, "arrived") /\ actSb[a] \notin DOMAIN sandboxes) =>
          /\ obsPc'[a] = "none"
          /\ obsReply'[a] = StatusOK
          /\ UNCHANGED <<lifeVars, hubVars, apiVars, submitted, endData, execPc, actPc>>]_vars

C27_Witness ==
  \E a \in ActionIds :
    /\ execN[a] > 0
    /\ actSb[a] \notin DOMAIN sandboxes
    /\ obsPc[a] = "none"
    /\ obsReply[a] = StatusOK
    /\ AgentCount(submitted[a]) < execN[a]

\* ----------------------------------------------------------------- C29
\* C29: an end pushed by the executor is handed to the hub once and the
\* manager builds no end for it; the same holds for a pushed start and a
\* pushed stream.  Every end the manager built is accounted for by a pushed
\* result or error or by the failed handshake.
C29_PushedEndBuildsNoEnd ==
  [][\A a \in ActionIds :
       /\ (ObsLeaves(a, "bcast") /\ obsType[a] \in {"end", "start", "stream"}) =>
            /\ obsPc'[a] = "none"
            /\ obsReply'[a] = StatusOK
            /\ submitted'[a] = Append(submitted[a], Submission(obsType[a], "agent"))
            /\ endData'[a] = endData[a]
       /\ Len(endData'[a]) > Len(endData[a]) =>
            \/ obsPc[a] = "end" /\ obsType[a] \in {"result", "error"}
            \/ actPc[a] = "failEnd"]_vars

C29_Witness ==
  \E a \in ActionIds :
    /\ obsPc[a] = "none"
    /\ obsReply[a] = StatusOK
    /\ submitted[a] # <<>>
    /\ submitted[a][Len(submitted[a])] = Submission("end", "agent")
    /\ EndCount(a) = 0

\* ----------------------------------------------------------------- C28
\* C28: the end the manager builds for a pushed result carries the result's
\* exit code (0 when it has none) and its error string when it has one; the
\* end built for a pushed error carries exit code -1 (or the code supplied)
\* and the error string; both are submitted for the observation's action.
C28_BuiltEndCarriesCodeAndError ==
  [][\A a \in ActionIds :
       ObsLeaves(a, "end") =>
         LET built == endData'[a][Len(endData'[a])]
             pushed == obsData[a]
         IN /\ Len(endData'[a]) = Len(endData[a]) + 1
            /\ submitted'[a] = Append(submitted[a], Submission("end", "manager"))
            /\ built.exit_code = (IF pushed.exit_code # {} THEN pushed.exit_code
                                  ELSE IF obsType[a] = "result" THEN {0} ELSE {-1})
            /\ built.error = pushed.error]_vars

\* ----------------------------------------------------------------- C25
\* C25: whatever the payload holds, an action_id key included, the action_id
\* of the body POSTed to the executor is the id InitiateAction generated and
\* returned, the one the start observation carries.
C25_BodyCarriesGeneratedId ==
  \A a \in ActionIds :
    actPc[a] # "unused" => requestBody[a][ActionIdKey] = a

\* ----------------------------------------------------------------- C23
\* no two spaces of the registry have the same name
UniqueNames ==
  \A e1, e2 \in DOMAIN spaces : e1 # e2 => spaceName[e1] # spaceName[e2]

\* the name CreateSpaceHandler was last called with
RequestedName(r) == r.body[2]

\* C23: no two spaces ever have the same name: creating a space under a name
\* an existing space has is answered with 409 and leaves the registry as it
\* was, however the calls interleave.
C23_SpaceNamesUnique ==
  [][/\ UniqueNames'
     /\ (/\ apiResp' # apiResp
         /\ apiResp'.ep = "create_space"
         /\ \E e \in DOMAIN spaces : spaceName[e] = RequestedName(apiResp')) =>
           /\ apiResp'.status = StatusConflict
           /\ UNCHANGED <<spaces, spaceName, issued>>]_vars

\* a second space was refused the name of a space created before it
C23_Witness ==
  /\ apiResp.ep = "create_space"
  /\ apiResp.status = StatusConflict
  /\ RequestedName(apiResp) = <<"d", "e", "v">>
  /\ Cardinality(DOMAIN spaces) = 3

\* ----------------------------------------------------------------- C24
\* the characters a to z and 0 to 9
LowerAlnum ==
  {"a", "b", "c", "d", "e", "f", "g", "h", "i", "j", "k", "l", "m", "n", "o", "p", "q", "r",
   "s", "t", "u", "v", "w", "x", "y", "z", "0", "1", "2", "3", "4", "5", "6", "7", "8", "9"}

\* longest name the API schema allows
MaxNameLen == 63

\* the name matches ^[a-z0-9]([-a-z0-9]*[a-z0-9])?$ and has 1 to 63 characters
ValidName(name) ==
  /\ Len(name) \in 1..MaxNameLen
  /\ name[1] \in LowerAlnum
  /\ name[Len(name)] \in LowerAlnum
  /\ \A i \in DOMAIN name : name[i] \in LowerAlnum \cup {"-"}

\* C24: every space of the registry, the one the Runtime starts with
\* included, has a name of 1 to 63 characters that matches
\* ^[a-z0-9]([-a-z0-9]*[a-z0-9])?$; any other name is refused.
C24_SpaceNamesValid ==
  \A e \in DOMAIN spaces : ValidName(spaceName[e])

\* ----------------------------------------------------------------- C31
\* what the ContainerRemove of the step being taken returned to caller p
RemoveError(p) ==
  IF container'[delSb[p]] # container[delSb[p]] THEN "nil" ELSE EngineError(delSb[p], "remove")

\* C31: DeleteSandbox on an indexed sandbox returns the first error of its
\* stop and remove steps that is not a not-found error, and success when
\* those steps gave no error or only not-found errors: after the removal the
\* error kept for the return is set exactly when one of the two calls gave
\* such an error, and the call returns what was kept.
C31_ReturnsFirstRealError ==
  [][\A p \in Procs :
       /\ Leaves(p, "remove") =>
            (delErr'[p] <=> (delStopErr[p] = "other" \/ RemoveError(p) = "other"))
       /\ Leaves(p, "unspace") => (delResult'[p] = "error" <=> delErr[p])]_vars

\* ----------------------------------------------------------------- C32
\* a CreateSandbox is at an engine call, an inspect pause or the health probe
CreateSuspended == creating.stage \in {"image", "created", "started", "nourl", "url"}

\* C32: the index lock is never held across an engine call, an HTTP call or
\* a sleep: while a CreateSandbox or DeleteSandbox is under way for one
\* sandbox, InitiateAction and SandboxExists for another sandbox complete
\* without waiting for it.
C32_ReadersNeverWait ==
  \A s \in SandboxIds :
    (CreateSuspended \/ \E p \in Procs : delPc[p] \in {"stop", "remove"}) =>
      /\ \A a \in ActionIds :
           (FreshAction(a) /\ s # creating.sid) => ENABLED InitiateAction(a, s, "shell")
      /\ \A c \in ClientIds :
           (cPc[c] = "new" /\ s \in DOMAIN sandboxes) => ENABLED ServeWs(c, s)

\* ----------------------------------------------------------------- C33
\* client.send of c has no room
BufferFull(c) == Len(send[c]) >= SendCap

\* C33: a subscriber whose outbound buffer is full does not hold the
\* dispatcher up: a queued message can always be dispatched, the dispatch
\* places it in the buffer of every other subscriber of the sandbox that has
\* room, and it leaves the queue, so the dispatcher goes on to what comes next.
C33_DispatcherNeverWaits ==
  [][/\ broadcast # <<>> => ENABLED (HubBroadcast /\ UNCHANGED <<lifeVars, apiVars>>)
     /\ Dispatching =>
          \A c \in ClientIds :
            (Subscribed(c, Head(broadcast).SandboxID) /\ BufferFull(c)) =>
              /\ send'[c] = send[c]
              /\ \A d \in ClientIds \ {c} :
                   (Subscribed(d, Head(broadcast).SandboxID) /\ ~BufferFull(d)) =>
                     send'[d] = Append(send[d], Head(broadcast))]_vars

\* one subscriber was passed over for a message that another subscriber of
\* the same sandbox was handed
C33_Witness ==
  \E c \in ClientIds : \E d \in ClientIds \ {c} :
    /\ cPc[c] = "registered" /\ cPc[d] = "registered"
    /\ cSb[c] = cSb[d]
    /\ \E m \in missed[c] : \E i \in DOMAIN (send[d] \o received[d]) : (send[d] \o received[d])[i] = m

\* the connection of client c has failed: its readPump got a read error, or
\* its writePump has returned after a write error
ConnectionFailed(c) == rdPc[c] = "unregistering" \/ wrPc[c] = "done"

\* client c is out of the hub, its client.send closed and both pumps ended
Released(c) ==
  /\ c \notin hClients
  /\ chClosed[c]
  /\ rdPc[c] = "done"
  /\ wrPc[c] = "done"

\* C34: after a read error or a write error on a client's connection the
\* client is eventually unregistered, its client.send closed, and readPump and
\* writePump have both ended
C34_FailedConnectionIsReleased ==
  \A c \in ClientIds : ConnectionFailed(c) ~> Released(c)

\* a client that received a message and was then released after a failure
C34_Witness ==
  \E c \in ClientIds : Released(c) /\ cPc[c] = "closed" /\ received[c] # <<>>

\* C38: no send on a client.send that was closed and no second close of it,
\* whatever the interleaving of register, dispatch, BroadcastToSandbox and
\* unregister requests: no panic was raised on a client.send, and no client
\* the dispatcher would send to has a closed client.send
C38_NoSendAfterClose ==
  /\ hubPanic = {}
  /\ \A s \in DOMAIN hSubs : \A c \in hSubs[s] : ~chClosed[c]

\* C39: in every state of the Hub a client is in h.clients exactly when it is
\* in the subscription set of its own sandbox, it is in the set of no other
\* sandbox, its client.send is open while it is registered, and no sandbox id
\* is mapped to an empty subscription set
C39_HubIndexesAgree ==
  /\ \A c \in ClientIds :
       /\ c \in hClients <=> (cSb[c] \in DOMAIN hSubs /\ c \in hSubs[cSb[c]])
       /\ \A s \in DOMAIN hSubs : c \in hSubs[s] => s = cSb[c]
       /\ c \in hClients => ~chClosed[c]
  /\ \A s \in DOMAIN hSubs : hSubs[s] # {}

\* one client was unregistered and the set of its sandbox is gone, while a
\* client of the other sandbox is still registered
C39_Witness ==
  \E c, d \in ClientIds :
    /\ cPc[c] = "closed"
    /\ d \in hClients
    /\ cSb[c] # cSb[d]
    /\ DOMAIN hSubs = {cSb[d]}

\* the step is a rejection by InitiateAction
Rejecting == rejected' # rejected

\* C37: a rejected InitiateAction (sandbox not in the index, or an action type
\* other than shell and ipython) hands out no action id, submits no
\* observation, launches no handshake task and contacts no executor
C37_RejectionHasNoEffect ==
  [][Rejecting =>
       /\ actPc' = actPc
       /\ requestBody' = requestBody
       /\ submitted' = submitted
       /\ broadcast' = broadcast
       /\ hsOutcome' = hsOutcome
       /\ execPc' = execPc]_vars

\* both kinds of rejection have happened, and an accepted action has run
C37_Witness ==
  /\ "browser" \in rejected
  /\ "s2" \in rejected
  /\ "s1" \in DOMAIN sandboxes
  /\ \E a \in ActionIds : actPc[a] = "done"

\* C40: every record in m.sandboxes has IsRunning set, in every state, so an
\* InitiateAction for a sandbox that is in the index is never rejected as not
\* running
C40_IndexedIsRunning ==
  [][/\ \A s \in DOMAIN sandboxes : sandboxes[s].IsRunning
     /\ \A s \in DOMAIN sandboxes' : sandboxes'[s].IsRunning
     /\ \A s \in SandboxIds : (s \in rejected' /\ s \notin rejected) => s \notin DOMAIN sandboxes]_vars

\* an action was accepted for a sandbox whose container a deletion has
\* already stopped
C40_Witness ==
  /\ "s1" \in DOMAIN sandboxes
  /\ container["s1"] = "stopped"
  /\ actPc[1] = "spawned"
  /\ "s1" \in rejected

\* the step stores the record of sandbox s
Recorded(s) == s \notin DOMAIN sandboxes /\ s \in DOMAIN sandboxes'

\* C35: the agent URL recorded for a sandbox is built from the mapped host
\* port whenever one of the inspect attempts got a host binding for 8000/tcp,
\* and from the container's IP only when none did; when neither was found the
\* call fails and records nothing
C35_PortPreferred ==
  [][/\ \A s \in SandboxIds :
          Recorded(s) =>
            /\ creating.sawBinding => sandboxes'[s].AgentURL = "port"
            /\ sandboxes'[s].AgentURL = "ip" => ~creating.sawBinding
     /\ creating.stage = "nourl" => (creating' = NoCreate /\ sandboxes' = sandboxes)]_vars

\* C36: every CreateSandbox call returns, and neither inspect loop makes more
\* than five attempts; the probe loop ends at the first 2xx answer or with the
\* timeout, after which the call fails
C36_CreateTerminates ==
  /\ [](creating.portTries <= maxRetries /\ creating.ipTries <= maxRetries)
  /\ CreateRunning ~> ~CreateRunning

\* a call that used up the first loop, found the IP in the fallback loop and
\* has had a probe answered without a 2xx
C36_Witness ==
  /\ creating.stage = "url"
  /\ creating.portTries = maxRetries
  /\ creating.ipTries > 1
  /\ creating.probes > 0

====
